---- MODULE Spec2Model ----
(***************************************************************************)
(* PubPersister: the dispatch and retry engine (ScraperListener), the six  *)
(* typed parsers it routes to, and the line framing of the ingestion       *)
(* server (SynchroSocketServer.handle_client).                             *)
(*                                                                         *)
(* Spec        connection workers running process_listened_message         *)
(*             concurrently against one database.                          *)
(* FramingSpec one connection worker reading a byte stream in recv chunks  *)
(*             and handing complete lines to the handler.                  *)
(* StoreSpec   the parsers at the level of rows, one run after the other.  *)
(* ServerSpec  the accept thread, the connection threads, the reaper and   *)
(*             stop().                                                     *)
(* AssocSpec, ScholarSpec, JournalSpec: one run of one parser on stored    *)
(*             rows.                                                       *)
(* RetrySpec, OutcomeSpec, DedupSpec: one or two calls of                  *)
(*             process_listened_message.                                   *)
(* FifthSpec   one call of StringUtils.first_after_fifth.                  *)
(***************************************************************************)
EXTENDS Integers, Sequences, FiniteSets, TLC

VARIABLES
    pc,            \* worker -> position in handle_client / process_listened_message
    cur,           \* worker -> dict_message of the handler call in progress
    attempts,      \* worker -> local variable attempts
    seen_messages, \* ScraperListener.seen_messages
    errors,        \* contents of persister.errors.json: key -> error text
    db,            \* committed rows: table -> sequence of update_count values
    pending,       \* worker -> uncommitted writes of the worker's current session
    locks,         \* worker -> tables whose matched row the current session holds FOR UPDATE
    orphan,        \* worker -> row locks of sessions the worker abandoned without rollback
    started,       \* worker -> number of lines handed to the handler
    handled,       \* worker -> number of handler calls that have returned
    calls,         \* worker -> parser invocations made by the current handler call
    fails,         \* worker -> attempts of the current call whose exception reached the engine
    written,       \* worker -> dead-letter writes <<key, text>> of the current call
    outcome,       \* worker -> how the last handler call ended
    perr,          \* worker -> error raised inside the parser in the current attempt
    lastErr,       \* worker -> str(e) of the exception the engine caught last
    rolledBack,    \* worker -> session.rollback() ran in the current attempt
    snap,          \* worker -> rows the parser read in the current attempt
    persisted,     \* message ids of the envelopes whose parser run was committed
    replay,        \* worker -> the current call's message id was persisted before the call
    stream,        \* bytes the client sends on the connection
    pos,           \* number of bytes of stream already returned by recv
    buffer,        \* handle_client's local buffer
    fpc,           \* position of the framing worker
    delivered,     \* messages handed to self.handler, in call order
    returned,      \* number of handler calls that have returned
    hAttempts,     \* attempts made by the handler call in progress
    hRaised,       \* for every handler call that has ended: whether it ended by raising
    store,         \* table -> (key of a stored row -> its columns)
    author_coauthor, \* the AuthorCoauthor rows <<author, coauthor>>
    clock,         \* datetime.now()
    processed,     \* envelopes handed to a parser so far
    lastRun,       \* what the parser run of the last envelope did
    is_running,    \* SynchroSocketServer.is_running
    server_socket, \* state of the listening socket
    connections,   \* SynchroSocketServer.connections: socket -> time of last activity
    sock,          \* socket -> "unborn", "open" or "closed"
    wpc,           \* socket -> position of its handle_client thread
    lpc,           \* position of the thread in _listen_for_connections
    accepted,      \* socket accept() has just returned, not yet registered
    rpc,           \* position of the thread in _monitor_connections
    to_close,      \* the reaper's local list to_close
    removing,      \* socket whose _remove_connection call the reaper is in
    spc,           \* position of the thread that calls stop()
    now,           \* time.time()
    lastScan,      \* current_time of the reaper's last scan
    dblp,          \* the tables PublicationAssociationProcessor reads and writes
    dblpRun,       \* the entry the processor was run on, the rows before, the outcome
    scholar,       \* the tables ScholarPublicationParser reads and writes
    scholarRun,    \* the envelope the parser was run on, the rows before, the outcome
    journal,       \* the rows of table journal: title -> columns
    journalRun,    \* the entry JournalParser was run on, the rows before, the outcome
    rpos,          \* position in process_listened_message of the call followed
    tries,         \* the local variable attempts of that call
    made,          \* attempts the call has started
    sessions,      \* the sessions the call obtained, each "active", "idle" or "closed"
    sleeps,        \* the sleep_time of every time.sleep() of the call
    delay,         \* config value "delay_secs", in hundredths of a second
    routed,        \* the parser the message of the call is routed to
    fifthRun,      \* the one call of StringUtils.first_after_fifth: its text and what it returned
    dedupRun,      \* two calls of process_listened_message in a row: their envelopes, seen_messages, what the message_lock block did
    callRun        \* one call of process_listened_message under one value of max_retries: its position, its counters, how it ended

engineVars == <<pc, cur, attempts, seen_messages, errors, db, pending, locks, orphan,
                started, handled, calls, fails, written, outcome, perr, lastErr,
                rolledBack, snap, persisted, replay>>
framingVars == <<stream, pos, buffer, fpc, delivered, returned, hAttempts, hRaised>>
storeVars == <<store, author_coauthor, clock, processed, lastRun>>
serverVars == <<is_running, server_socket, connections, sock, wpc, lpc, accepted, rpc,
                to_close, removing, spc, now, lastScan>>
assocVars == <<dblp, dblpRun>>
scholarVars == <<scholar, scholarRun>>
journalVars == <<journal, journalRun>>
retryVars == <<rpos, tries, made, sessions, sleeps, delay, routed>>
fifthVars == <<fifthRun>>
dedupVars == <<dedupRun>>
outcomeVars == <<callRun>>
notEngineVars == <<framingVars, storeVars, serverVars, assocVars, scholarVars, journalVars, retryVars, fifthVars, dedupVars, outcomeVars>>
notFramingVars == <<engineVars, storeVars, serverVars, assocVars, scholarVars, journalVars, retryVars, fifthVars, dedupVars, outcomeVars>>
notStoreVars == <<engineVars, framingVars, serverVars, assocVars, scholarVars, journalVars, retryVars, fifthVars, dedupVars, outcomeVars>>
notServerVars == <<engineVars, framingVars, storeVars, assocVars, scholarVars, journalVars, retryVars, fifthVars, dedupVars, outcomeVars>>
notAssocVars == <<engineVars, framingVars, storeVars, serverVars, scholarVars, journalVars, retryVars, fifthVars, dedupVars, outcomeVars>>
notScholarVars == <<engineVars, framingVars, storeVars, serverVars, assocVars, journalVars, retryVars, fifthVars, dedupVars, outcomeVars>>
notJournalVars == <<engineVars, framingVars, storeVars, serverVars, assocVars, scholarVars, retryVars, fifthVars, dedupVars, outcomeVars>>
notRetryVars == <<engineVars, framingVars, storeVars, serverVars, assocVars, scholarVars, journalVars, fifthVars, dedupVars, outcomeVars>>
notFifthVars == <<engineVars, framingVars, storeVars, serverVars, assocVars, scholarVars, journalVars, retryVars, dedupVars, outcomeVars>>
notDedupVars == <<engineVars, framingVars, storeVars, serverVars, assocVars, scholarVars, journalVars, retryVars, fifthVars, outcomeVars>>
notOutcomeVars == <<engineVars, framingVars, storeVars, serverVars, assocVars, scholarVars, journalVars, retryVars, fifthVars, dedupVars>>
vars == <<pc, cur, attempts, seen_messages, errors, db, pending, locks, orphan,
          started, handled, calls, fails, written, outcome, perr, lastErr,
          rolledBack, snap, persisted, replay, stream, pos, buffer, fpc, delivered, returned, hAttempts,
          hRaised,
          store, author_coauthor, clock, processed, lastRun,
          is_running, server_socket, connections, sock, wpc, lpc, accepted, rpc,
          to_close, removing, spc, now, lastScan, dblp, dblpRun,
          scholar, scholarRun,
          journal, journalRun,
          rpos, tries, made, sessions, sleeps, delay, routed,
          fifthRun,
          dedupRun,
          callRun>>

(***************************************************************************)
(* Bounds and configuration                                                *)
(***************************************************************************)
\* envelopes the scrapers send, over all connections
MaxEnvelopes == 2
\* config value "max_retries"
max_retries == 2
\* longest byte stream of the framing specification
MaxStream == 5

Workers == {"w1", "w2"}

(***************************************************************************)
(* Envelope kinds: (class_id, variant_id)                                  *)
(***************************************************************************)
GoogleScholarPublication_CLASS_ID == 1010
GoogleScholarPublication_VARIANT_ID == 50
Author_CLASS_ID == 1000
GoogleScholarAuthor_VARIANT_ID == 51
Publication_CLASS_ID == 1010
Conference_CLASS_ID == 1020
Conference_VARIANT_ID == 60
Journal_CLASS_ID == 1030
Journal_VARIANT_ID == 70
GoogleScholarCitation_CLASS_ID == 1040
GoogleScholarCitation_VARIANT_ID == 80
DblpAssoc_VARIANT_ID == 100

\* a line that json.loads turns into an object with the three metadata keys
Envelope(c, v, i) == [class_id |-> c, variant_id |-> v, id |-> i, form |-> "envelope"]
NoEnvelope == Envelope(0, 0, "")

\* a line that is no such object: not JSON at all, JSON but no object (an
\* array, a string, a number, null), or an object without one of the keys
MalformedForms == {"not json", "not an object", "no class_id", "no variant_id", "no _id"}
Malformed(f) == [class_id |-> 0, variant_id |-> 0, id |-> "", form |-> f]
MalformedLines == {Malformed(f) : f \in MalformedForms}

\* the envelopes the scrapers send: two publication envelopes that differ in
\* _id only, one envelope of each other routed kind, one of no routed kind;
\* the author envelope and the publication envelopes name the same author
Envelopes ==
    { Envelope(Publication_CLASS_ID, GoogleScholarPublication_VARIANT_ID, "1"),
      Envelope(Publication_CLASS_ID, GoogleScholarPublication_VARIANT_ID, "2"),
      Envelope(Author_CLASS_ID, GoogleScholarAuthor_VARIANT_ID, "1"),
      Envelope(Conference_CLASS_ID, Conference_VARIANT_ID, "1"),
      Envelope(Journal_CLASS_ID, Journal_VARIANT_ID, "1"),
      Envelope(Publication_CLASS_ID, DblpAssoc_VARIANT_ID, "1"),
      Envelope(GoogleScholarCitation_CLASS_ID, GoogleScholarCitation_VARIANT_ID, "1"),
      Envelope(Author_CLASS_ID, DblpAssoc_VARIANT_ID, "1") }

\* json.loads(message) raises JSONDecodeError
json_loads_raises(e) == e.form = "not json"

\* every line is taken for an envelope with its three keys
MessageIdNeverRaises(e) == FALSE

\* dict_message['class_id'], ['variant_id'], ['_id'] raise TypeError on a
\* value that is no object, KeyError on an object without the key
message_id_raises(e) == e.form \in {"not an object", "no class_id", "no variant_id", "no _id"}

\* process_listened_message raises before its loop and its try block
RaisesBeforeLoop(e) == json_loads_raises(e) \/ message_id_raises(e)

\* message_id = str(class_id) + str(variant_id) + str(_id)
message_id(e) == ToString(e.class_id) \o ToString(e.variant_id) \o e.id

\* the else branch of the chain hands the envelope to the journal parser
RouteElseJournal(e) == "JournalParser"

\* the if/elif chain of process_listened_message
Route(e) ==
    IF e.variant_id = GoogleScholarAuthor_VARIANT_ID /\ e.class_id = Author_CLASS_ID
    THEN "ScholarAuthorParser"
    ELSE IF e.variant_id = GoogleScholarPublication_VARIANT_ID /\ e.class_id = Publication_CLASS_ID
    THEN "ScholarPublicationParser"
    ELSE IF e.variant_id = Conference_VARIANT_ID /\ e.class_id = Conference_CLASS_ID
    THEN "ConferenceProcessor"
    ELSE IF e.variant_id = Journal_VARIANT_ID /\ e.class_id = Journal_CLASS_ID
    THEN "JournalParser"
    ELSE IF e.variant_id = DblpAssoc_VARIANT_ID /\ e.class_id = Publication_CLASS_ID
    THEN "PublicationAssociationProcessor"
    ELSE IF e.variant_id = GoogleScholarCitation_VARIANT_ID
            /\ e.class_id = GoogleScholarCitation_CLASS_ID
    THEN "ScholarCitationParser"
    ELSE "Invalid"

Parsers == {"ScholarAuthorParser", "ScholarPublicationParser", "ConferenceProcessor",
            "JournalParser", "PublicationAssociationProcessor", "ScholarCitationParser"}

(***************************************************************************)
(* Parsers: what each raises, what its except clauses catch                *)
(***************************************************************************)
\* Exception classes as they arrive at the try block of the parser's entry
\* method.  "Exception" is the plain Exception a helper raises when it wraps
\* a SQLAlchemyError; "KeyError" stands for the built-in errors other than
\* ValueError (a missing key, int(None), .lower() of a non-string).
ErrorClasses == {"ValueError", "SQLAlchemyError", "Exception", "KeyError"}

\* errors the parser body can raise between begin_nested() and commit()
CanRaise(p) ==
    CASE p = "ScholarAuthorParser" -> {"ValueError", "Exception", "KeyError"}
      [] p = "ScholarPublicationParser" -> {"ValueError", "Exception", "KeyError"}
      [] p = "ConferenceProcessor" -> {"SQLAlchemyError", "KeyError"}
      [] p = "JournalParser" -> {"SQLAlchemyError", "KeyError"}
      [] p = "PublicationAssociationProcessor" -> {"SQLAlchemyError", "KeyError"}
      [] p = "ScholarCitationParser" -> {"ValueError", "Exception"}

\* the except clauses of the entry method
Catches(p, err) ==
    CASE p = "ScholarAuthorParser" -> err \in {"ValueError", "SQLAlchemyError"}
      [] p = "ScholarPublicationParser" -> err \in {"ValueError", "SQLAlchemyError"}
      [] p = "ConferenceProcessor" -> err = "SQLAlchemyError"
      [] p = "JournalParser" -> err = "SQLAlchemyError"
      [] p = "PublicationAssociationProcessor" -> TRUE
      [] p = "ScholarCitationParser" -> TRUE

\* the except clause ends without a raise: the error is printed and dropped
Swallows(p) == p = "ScholarCitationParser"

\* str() of the exception the parser lets out
RaisedText(p, err) ==
    IF ~Catches(p, err) THEN err
    ELSE CASE p = "ScholarAuthorParser" -> "Error processing Google Scholar data: " \o err
           [] p = "ScholarPublicationParser" ->
                  "Error processing Google Scholar publication data: " \o err
           [] OTHER -> "Error processing JSON data: " \o err

(***************************************************************************)
(* The database.  Every envelope of one kind names the same entities, so a *)
(* table is the sequence of the update_count values of the rows that carry *)
(* that name; 0 is an update_count never set.                              *)
(***************************************************************************)
Tables == {"author", "google_scholar_author", "publication", "google_scholar_publication",
           "conference", "journal", "google_scholar_citation"}

NoWrite == [op |-> "none", uc |-> 0]
Insert(uc) == [op |-> "ins", uc |-> uc]
Update(uc) == [op |-> "upd", uc |-> uc]
NoWrites == [t \in Tables |-> NoWrite]
EmptyDb == [t \in Tables |-> <<>>]

\* x.update_count + 1 if x.update_count else 1
NextUpdateCount(uc) == IF uc # 0 THEN uc + 1 ELSE 1

\* look the row up; create it when absent; set update_count (the envelopes
\* carry no update_count of their own)
Upsert(rows) ==
    IF rows = <<>> THEN Insert(NextUpdateCount(0)) ELSE Update(NextUpdateCount(rows[1]))

\* look the row up inside "with self.session:", which closes the session and
\* detaches the row found; create it when absent; the update_count set on a
\* detached row is never flushed
UpsertDetached(rows) == IF rows = <<>> THEN Insert(NextUpdateCount(0)) ELSE NoWrite

\* look the row up; create it when absent; update_count is not assigned
AddIfAbsent(rows) == IF rows = <<>> THEN Insert(0) ELSE NoWrite

\* the writes a parser run makes after reading the rows d
ParserWrites(p, d) ==
    CASE p = "ScholarAuthorParser" ->
           [NoWrites EXCEPT !["author"] = AddIfAbsent(d["author"]),
                            !["google_scholar_author"] = AddIfAbsent(d["google_scholar_author"])]
      [] p = "ScholarPublicationParser" ->
           [NoWrites EXCEPT !["publication"] = UpsertDetached(d["publication"]),
                            !["google_scholar_publication"] =
                                UpsertDetached(d["google_scholar_publication"]),
                            !["author"] = AddIfAbsent(d["author"])]
      [] p = "ConferenceProcessor" ->
           [NoWrites EXCEPT !["conference"] = Upsert(d["conference"])]
      [] p = "JournalParser" ->
           [NoWrites EXCEPT !["journal"] = Upsert(d["journal"])]
      [] p = "PublicationAssociationProcessor" ->
           IF d["publication"] = <<>> THEN NoWrites
           ELSE [NoWrites EXCEPT !["journal"] = AddIfAbsent(d["journal"])]
      [] p = "ScholarCitationParser" ->
           [NoWrites EXCEPT !["google_scholar_citation"] = Upsert(d["google_scholar_citation"])]

\* the run cannot end normally on the rows d: one_or_none() on several rows,
\* or the citation parser's publication is not stored
MustRaise(p, d) ==
    CASE p = "ScholarPublicationParser" ->
           \/ Len(d["publication"]) > 1
           \/ Len(d["google_scholar_publication"]) > 1
           \/ Len(d["author"]) > 1
      [] p = "ScholarCitationParser" ->
           \/ Len(d["google_scholar_publication"]) # 1
           \/ Len(d["google_scholar_citation"]) > 1
      [] OTHER -> FALSE

\* tables whose matched row stays locked (with_for_update) until the
\* transaction ends; ScholarPublicationParser closes the session right after
\* its publication queries, the association parser takes no lock
LockTables(p) ==
    CASE p = "ScholarAuthorParser" -> {"author", "google_scholar_author"}
      [] p = "ScholarPublicationParser" -> {"author"}
      [] p = "ConferenceProcessor" -> {"conference"}
      [] p = "JournalParser" -> {"journal"}
      [] p = "PublicationAssociationProcessor" -> {}
      [] p = "ScholarCitationParser" -> {"google_scholar_publication", "google_scholar_citation"}

RowLocks(p, d) == {t \in LockTables(p) : d[t] # <<>>}

\* session.commit(): the pending writes become rows
ApplyWrites(d, ws) ==
    [t \in Tables |->
        CASE ws[t].op = "ins" -> Append(d[t], ws[t].uc)
          [] ws[t].op = "upd" /\ d[t] # <<>> -> [d[t] EXCEPT ![1] = ws[t].uc]
          [] OTHER -> d[t]]

\* JsonReader("persister.errors").set_and_save(key, value)
set_and_save(file, key, value) ==
    [k \in DOMAIN file \cup {key} |-> IF k = key THEN value ELSE file[k]]

\* the dead-letter entry keyed by the engine's message_id
DeadLetterKeyIsMessageId(e) == message_id(e)

\* the key of the dead-letter entry: str(dict_message['_id'])
DeadLetterKey(e) == e.id

Sockets == {"s1", "s2"}
NoSocket == "none"

\* SynchroSocketServer.__init__: the server constructed, not started
ServerOff ==
    /\ is_running = FALSE
    /\ server_socket = "open"
    /\ connections = <<>>
    /\ sock = [s \in Sockets |-> "unborn"]
    /\ wpc = [s \in Sockets |-> "none"]
    /\ lpc = "off"
    /\ accepted = NoSocket
    /\ rpc = "off"
    /\ to_close = {}
    /\ removing = NoSocket
    /\ spc = "off"
    /\ now = 0
    /\ lastScan = 0

\* the row-level store, not in use
StoreOff ==
    /\ store = <<>>
    /\ author_coauthor = {}
    /\ clock = 0
    /\ processed = 0
    /\ lastRun = <<>>

\* the tables of the association processor, not in use
AssocOff ==
    /\ dblp = <<>>
    /\ dblpRun = <<>>

\* the variables of ScholarSpec, not in use
ScholarOff ==
    /\ scholar = <<>>
    /\ scholarRun = <<>>

\* the variables of JournalSpec, not in use
JournalOff ==
    /\ journal = <<>>
    /\ journalRun = <<>>

\* the variables of RetrySpec, not in use
RetryOff ==
    /\ rpos = <<>>
    /\ tries = <<>>
    /\ made = <<>>
    /\ sessions = <<>>
    /\ sleeps = <<>>
    /\ delay = <<>>
    /\ routed = <<>>

\* the variables of FifthSpec, not in use
FifthOff ==
    /\ fifthRun = <<>>

\* the variables of DedupSpec, not in use
DedupOff ==
    /\ dedupRun = <<>>

\* the variables of OutcomeSpec, not in use
OutcomeOff ==
    /\ callRun = <<>>

(***************************************************************************)
(* Spec: connection workers in process_listened_message                    *)
(***************************************************************************)
InParser(w) == pc[w] \in {"work", "commit"}

\* row locks some session other than w's current one holds
LockedByOthers(w) ==
    UNION {locks[v] : v \in Workers \ {w}} \cup UNION {orphan[v] : v \in Workers}

Init ==
    /\ OutcomeOff
    /\ DedupOff
    /\ FifthOff
    /\ RetryOff
    /\ JournalOff
    /\ ScholarOff
    /\ pc = [w \in Workers |-> "recv"]
    /\ cur = [w \in Workers |-> NoEnvelope]
    /\ attempts = [w \in Workers |-> 0]
    /\ seen_messages = {}
    /\ errors = [k \in {} |-> ""]
    /\ db = EmptyDb
    /\ pending = [w \in Workers |-> NoWrites]
    /\ locks = [w \in Workers |-> {}]
    /\ orphan = [w \in Workers |-> {}]
    /\ started = [w \in Workers |-> 0]
    /\ handled = [w \in Workers |-> 0]
    /\ calls = [w \in Workers |-> 0]
    /\ fails = [w \in Workers |-> 0]
    /\ written = [w \in Workers |-> <<>>]
    /\ outcome = [w \in Workers |-> "none"]
    /\ perr = [w \in Workers |-> "none"]
    /\ lastErr = [w \in Workers |-> ""]
    /\ rolledBack = [w \in Workers |-> FALSE]
    /\ snap = [w \in Workers |-> EmptyDb]
    /\ persisted = {}
    /\ replay = [w \in Workers |-> FALSE]
    /\ stream = <<>>
    /\ pos = 0
    /\ buffer = <<>>
    /\ fpc = "off"
    /\ delivered = <<>>
    /\ returned = 0
    /\ hAttempts = 0
    /\ hRaised = <<>>
    /\ StoreOff
    /\ ServerOff
    /\ AssocOff

\* number of lines handed to the handler so far, over all connections
RECURSIVE SumStarted(_)
SumStarted(ws) ==
    IF ws = {} THEN 0
    ELSE LET w == CHOOSE x \in ws : TRUE IN started[w] + SumStarted(ws \ {w})

\* the handler can be called for the next line only when the call for the
\* line before it has returned: handle_client calls self.handler inline
CanDispatch(w) == pc[w] = "recv"

\* handle_client hands the next complete line to the handler, which parses
\* it, reads the configuration and computes message_id; an exception raised
\* there leaves the handler and is logged by handle_client
Receive(w, e) ==
    /\ CanDispatch(w)
    /\ SumStarted(Workers) < MaxEnvelopes
    /\ started' = [started EXCEPT ![w] = @ + 1]
    /\ cur' = [cur EXCEPT ![w] = e]
    /\ attempts' = [attempts EXCEPT ![w] = 0]
    /\ IF RaisesBeforeLoop(e)
       THEN /\ handled' = [handled EXCEPT ![w] = @ + 1]
            /\ outcome' = [outcome EXCEPT ![w] = "rejected"]
            /\ UNCHANGED pc
       ELSE /\ pc' = [pc EXCEPT ![w] = "check"]
            /\ outcome' = [outcome EXCEPT ![w] = "none"]
            /\ UNCHANGED handled
    /\ calls' = [calls EXCEPT ![w] = 0]
    /\ fails' = [fails EXCEPT ![w] = 0]
    /\ written' = [written EXCEPT ![w] = <<>>]
    /\ perr' = [perr EXCEPT ![w] = "none"]
    /\ lastErr' = [lastErr EXCEPT ![w] = ""]
    /\ rolledBack' = [rolledBack EXCEPT ![w] = FALSE]
    /\ replay' = [replay EXCEPT ![w] = message_id(e) \in persisted]
    /\ UNCHANGED <<seen_messages, errors, db, pending, locks, orphan, snap, persisted>>
    /\ UNCHANGED notEngineVars

\* process_listened_message returns to handle_client
Return(w, how) ==
    /\ pc' = [pc EXCEPT ![w] = "recv"]
    /\ handled' = [handled EXCEPT ![w] = @ + 1]
    /\ outcome' = [outcome EXCEPT ![w] = how]

\* the removal made on every attempt, the first one included
SeenAfterRemoval(w) == seen_messages \ {message_id(cur[w])}

\* seen_messages after the retry branch of the message_lock block
SeenAfterRetryRemoval(w) ==
    IF attempts[w] > 0 /\ message_id(cur[w]) \in seen_messages
    THEN seen_messages \ {message_id(cur[w])}
    ELSE seen_messages

\* the worker is about to enter the message_lock block: on the first attempt
\* right after the call, on a retry after time.sleep()
AtCheck(w) == pc[w] \in {"check", "sleep"}

\* the seen-set test left out
AlreadySeenNever(w) == FALSE

\* the seen-set test made on a retry only
AlreadySeenOnRetryOnly(w) == attempts[w] > 0 /\ message_id(cur[w]) \in seen_messages

\* if message_id in ScraperListener.seen_messages
AlreadySeen(w) == message_id(cur[w]) \in SeenAfterRetryRemoval(w)

\* Context().get_session(): a session of its own for every call, with
\* nothing pending
get_session == NoWrites

\* the message_lock block finds the id in seen_messages: return
Drop(w) ==
    /\ AtCheck(w)
    /\ AlreadySeen(w)
    /\ seen_messages' = SeenAfterRetryRemoval(w)
    /\ Return(w, "dropped")
    /\ UNCHANGED <<cur, attempts, errors, db, pending, locks, orphan, started, calls,
                   fails, written, perr, lastErr, rolledBack, snap, persisted, replay>>
    /\ UNCHANGED notEngineVars

\* the message_lock block admits the id; no branch of the routing chain
\* matches: a warning, then the success path
Discard(w) ==
    /\ AtCheck(w)
    /\ ~AlreadySeen(w)
    /\ Route(cur[w]) = "Invalid"
    /\ seen_messages' = SeenAfterRetryRemoval(w) \cup {message_id(cur[w])}
    /\ Return(w, "invalid")
    /\ UNCHANGED <<cur, attempts, errors, db, pending, locks, orphan, started, calls,
                   fails, written, perr, lastErr, rolledBack, snap, persisted, replay>>
    /\ UNCHANGED notEngineVars

\* the message_lock block admits the id; the engine takes a session and
\* calls the routed parser, which opens its nested transaction
Admit(w) ==
    /\ AtCheck(w)
    /\ ~AlreadySeen(w)
    /\ Route(cur[w]) # "Invalid"
    /\ seen_messages' = SeenAfterRetryRemoval(w) \cup {message_id(cur[w])}
    /\ pc' = [pc EXCEPT ![w] = "work"]
    /\ calls' = [calls EXCEPT ![w] = @ + 1]
    /\ pending' = [pending EXCEPT ![w] = get_session]
    /\ perr' = [perr EXCEPT ![w] = "none"]
    /\ rolledBack' = [rolledBack EXCEPT ![w] = FALSE]
    /\ UNCHANGED <<cur, attempts, errors, db, locks, orphan, started, handled, fails,
                   written, outcome, lastErr, snap, persisted, replay>>
    /\ UNCHANGED notEngineVars

\* the except clause calls commit() where it should call rollback()
RollbackCommits(d, ws) == ApplyWrites(d, ws)

\* session.rollback() on the rows d with the writes ws pending: the writes
\* are discarded, the rows stay as they were committed
Rollback(d, ws) == d

\* an exception of class err arrives at the parser's except clauses while
\* the session holds the writes ws and the row locks held.  A session left
\* without rollback is abandoned: its writes never become rows, its locks
\* stay until the session is collected
ParserRaise(w, err, ws, held) ==
    LET p == Route(cur[w]) IN
    /\ perr' = [perr EXCEPT ![w] = err]
    /\ rolledBack' = [rolledBack EXCEPT ![w] = Catches(p, err)]
    /\ locks' = [locks EXCEPT ![w] = {}]
    /\ pending' = [pending EXCEPT ![w] = NoWrites]
    /\ snap' = [snap EXCEPT ![w] = EmptyDb]
    /\ IF Catches(p, err)
       THEN /\ db' = Rollback(db, ws)
            /\ UNCHANGED orphan
       ELSE /\ orphan' = [orphan EXCEPT ![w] = @ \cup held]
            /\ UNCHANGED db
    /\ IF Catches(p, err) /\ Swallows(p)
       THEN /\ Return(w, "success")
            /\ UNCHANGED <<fails, lastErr>>
       ELSE /\ pc' = [pc EXCEPT ![w] = "failed"]
            /\ fails' = [fails EXCEPT ![w] = @ + 1]
            /\ lastErr' = [lastErr EXCEPT ![w] = RaisedText(p, err)]
            /\ UNCHANGED <<handled, outcome>>
    /\ UNCHANGED <<cur, attempts, seen_messages, errors, started, calls, written,
                   persisted, replay>>
    /\ UNCHANGED notEngineVars

\* the parser body runs its queries and ends normally: commit() is next
WorkOk(w) ==
    LET p == Route(cur[w]) IN
    /\ pc[w] = "work"
    /\ RowLocks(p, db) \cap LockedByOthers(w) = {}
    /\ ~MustRaise(p, db)
    /\ snap' = [snap EXCEPT ![w] = db]
    /\ pending' = [pending EXCEPT ![w] = ParserWrites(p, db)]
    /\ locks' = [locks EXCEPT ![w] = RowLocks(p, db)]
    /\ pc' = [pc EXCEPT ![w] = "commit"]
    /\ UNCHANGED <<cur, attempts, seen_messages, errors, db, orphan, started, handled,
                   calls, fails, written, outcome, perr, lastErr, rolledBack, persisted,
                   replay>>
    /\ UNCHANGED notEngineVars

\* the parser body raises, before its first write or after its last one
WorkRaise(w, err, late) ==
    LET p == Route(cur[w]) IN
    /\ pc[w] = "work"
    /\ RowLocks(p, db) \cap LockedByOthers(w) = {}
    /\ err \in CanRaise(p)
    /\ ParserRaise(w, err, IF late THEN ParserWrites(p, db) ELSE NoWrites,
                   IF late THEN RowLocks(p, db) ELSE {})

\* session.commit() succeeds; the parser returns and the engine logs success
CommitOk(w) ==
    /\ pc[w] = "commit"
    /\ db' = ApplyWrites(db, pending[w])
    /\ pending' = [pending EXCEPT ![w] = NoWrites]
    /\ locks' = [locks EXCEPT ![w] = {}]
    /\ snap' = [snap EXCEPT ![w] = EmptyDb]
    /\ persisted' = persisted \cup {message_id(cur[w])}
    /\ Return(w, "success")
    /\ UNCHANGED <<cur, attempts, seen_messages, errors, orphan, started, calls, fails,
                   written, perr, lastErr, rolledBack, replay>>
    /\ UNCHANGED notEngineVars

\* session.commit() raises a database error
CommitRaise(w) ==
    /\ pc[w] = "commit"
    /\ ParserRaise(w, "SQLAlchemyError", pending[w], locks[w])

\* the last-attempt test off by one
IsLastAttemptLate(a) == a = max_retries

\* if attempts == max_retries - 1
IsLastAttempt(a) == a = max_retries - 1

\* the engine's except clause.  On the last attempt: the dead-letter entry,
\* break.  Else attempts += 1, time.sleep(sleep_time) and the loop test
Except(w) ==
    /\ pc[w] = "failed"
    /\ IF IsLastAttempt(attempts[w])
       THEN /\ errors' = set_and_save(errors, DeadLetterKey(cur[w]), lastErr[w])
            /\ written' = [written EXCEPT ![w] = Append(@, <<DeadLetterKey(cur[w]), lastErr[w]>>)]
            /\ Return(w, "deadletter")
            /\ UNCHANGED <<attempts, perr>>
       ELSE /\ attempts' = [attempts EXCEPT ![w] = @ + 1]
            /\ perr' = [perr EXCEPT ![w] = "none"]
            /\ IF attempts[w] + 1 < max_retries
               THEN /\ pc' = [pc EXCEPT ![w] = "sleep"]
                    /\ UNCHANGED <<handled, outcome>>
               ELSE Return(w, "exhausted")
            /\ UNCHANGED <<errors, written>>
    /\ lastErr' = [lastErr EXCEPT ![w] = ""]
    /\ rolledBack' = [rolledBack EXCEPT ![w] = FALSE]
    /\ UNCHANGED <<cur, seen_messages, db, pending, locks, orphan, started, calls, fails,
                   snap, persisted, replay>>
    /\ UNCHANGED notEngineVars

\* a session abandoned without rollback is collected: its connection goes
\* back to the pool, which rolls its transaction back
Reclaim(w) ==
    /\ orphan[w] # {}
    /\ orphan' = [orphan EXCEPT ![w] = {}]
    /\ UNCHANGED <<pc, cur, attempts, seen_messages, errors, db, pending, locks, started,
                   handled, calls, fails, written, outcome, perr, lastErr, rolledBack, snap,
                   persisted, replay>>
    /\ UNCHANGED notEngineVars

Next ==
    \/ \E w \in Workers, e \in Envelopes \cup MalformedLines : Receive(w, e)
    \/ \E w \in Workers : Drop(w)
    \/ \E w \in Workers : Discard(w)
    \/ \E w \in Workers : Admit(w)
    \/ \E w \in Workers : WorkOk(w)
    \/ \E w \in Workers, err \in ErrorClasses, late \in BOOLEAN : WorkRaise(w, err, late)
    \/ \E w \in Workers : CommitOk(w)
    \/ \E w \in Workers : CommitRaise(w)
    \/ \E w \in Workers : Except(w)
    \/ \E w \in Workers : Reclaim(w)

Spec == Init /\ [][Next]_vars

(***************************************************************************)
(* FramingSpec: handle_client on one connection                            *)
(***************************************************************************)
\* the argument of client_socket.recv
RecvSize == 1024

\* byte values: an ASCII letter, an ASCII blank, the newline, and the lead
\* and the continuation byte of a two-byte UTF-8 sequence
Bytes == {"a", " ", "\n", "L", "C"}
Whitespace == {" ", "\n"}

Streams == UNION {[1..n -> Bytes] : n \in 0..MaxStream}

Min(a, b) == IF a < b THEN a ELSE b

\* index of the first newline of a buffer that holds one
FirstNewline(buf) == CHOOSE i \in 1..Len(buf) : buf[i] = "\n" /\ \A j \in 1..(i - 1) : buf[j] # "\n"

HasNewline(buf) == \E i \in 1..Len(buf) : buf[i] = "\n"

\* message, buffer = buffer.split(b'\n', 1)
SplitMessage(buf) == SubSeq(buf, 1, FirstNewline(buf) - 1)
SplitRest(buf) == SubSeq(buf, FirstNewline(buf) + 1, Len(buf))

\* bytes.strip(): leading and trailing ASCII whitespace removed
RECURSIVE LStrip(_)
LStrip(b) == IF b # <<>> /\ Head(b) \in Whitespace THEN LStrip(Tail(b)) ELSE b
RECURSIVE RStrip(_)
RStrip(b) ==
    IF b # <<>> /\ b[Len(b)] \in Whitespace THEN RStrip(SubSeq(b, 1, Len(b) - 1)) ELSE b
Strip(b) == RStrip(LStrip(b))

\* message.decode("utf-8") raises UnicodeDecodeError unless every lead byte
\* is followed by a continuation byte and every continuation byte follows a
\* lead byte
ValidUtf8(b) ==
    /\ \A i \in 1..Len(b) : b[i] = "L" => (i < Len(b) /\ b[i + 1] = "C")
    /\ \A i \in 1..Len(b) : b[i] = "C" => (i > 1 /\ b[i - 1] = "L")

\* message.decode("utf-8") of valid bytes: one character per sequence
RECURSIVE Decode(_)
Decode(b) ==
    IF b = <<>> THEN <<>>
    ELSE IF Head(b) = "L" THEN <<"e'">> \o Decode(Tail(Tail(b)))
    ELSE <<Head(b)>> \o Decode(Tail(b))

\* the buffer overwritten by the chunk
AccumulateOverwrites(buf, chunk) == chunk

\* buffer += chunk
Accumulate(buf, chunk) == buf \o chunk

\* self.handler(...) is called inline: while a handler call has not
\* returned the worker is inside it and its read loop does not advance
InHandler == returned < Len(delivered)

\* the handler started on a thread of its own, the read loop going on
WorkerFreeAlways == TRUE

WorkerFree == ~InHandler

FramingInit ==
    /\ OutcomeOff
    /\ DedupOff
    /\ FifthOff
    /\ RetryOff
    /\ JournalOff
    /\ ScholarOff
    /\ pc = [w \in Workers |-> "recv"]
    /\ cur = [w \in Workers |-> NoEnvelope]
    /\ attempts = [w \in Workers |-> 0]
    /\ seen_messages = {}
    /\ errors = [k \in {} |-> ""]
    /\ db = EmptyDb
    /\ pending = [w \in Workers |-> NoWrites]
    /\ locks = [w \in Workers |-> {}]
    /\ orphan = [w \in Workers |-> {}]
    /\ started = [w \in Workers |-> 0]
    /\ handled = [w \in Workers |-> 0]
    /\ calls = [w \in Workers |-> 0]
    /\ fails = [w \in Workers |-> 0]
    /\ written = [w \in Workers |-> <<>>]
    /\ outcome = [w \in Workers |-> "none"]
    /\ perr = [w \in Workers |-> "none"]
    /\ lastErr = [w \in Workers |-> ""]
    /\ rolledBack = [w \in Workers |-> FALSE]
    /\ snap = [w \in Workers |-> EmptyDb]
    /\ persisted = {}
    /\ replay = [w \in Workers |-> FALSE]
    /\ stream \in Streams
    /\ pos = 0
    /\ buffer = <<>>
    /\ fpc = "recv"
    /\ delivered = <<>>
    /\ returned = 0
    /\ hAttempts = 0
    /\ hRaised = <<>>
    /\ StoreOff
    /\ ServerOff
    /\ AssocOff

\* chunk = client_socket.recv(1024) returns n bytes; buffer += chunk
Recv(n) ==
    /\ fpc = "recv"
    /\ WorkerFree
    /\ n \in 1..Min(RecvSize, Len(stream) - pos)
    /\ buffer' = Accumulate(buffer, SubSeq(stream, pos + 1, pos + n))
    /\ pos' = pos + n
    /\ fpc' = "split"
    /\ UNCHANGED <<stream, delivered, returned, hAttempts, hRaised>>
    /\ UNCHANGED notFramingVars

\* recv returns b'' at the end of the stream: break
Eof ==
    /\ fpc = "recv"
    /\ WorkerFree
    /\ pos = Len(stream)
    /\ fpc' = "eof"
    /\ UNCHANGED <<stream, pos, buffer, delivered, returned, hAttempts, hRaised>>
    /\ UNCHANGED notFramingVars

\* recv raises socket.timeout or OSError: break
RecvFails ==
    /\ fpc = "recv"
    /\ WorkerFree
    /\ fpc' = "aborted"
    /\ UNCHANGED <<stream, pos, buffer, delivered, returned, hAttempts, hRaised>>
    /\ UNCHANGED notFramingVars

\* one round of the while loop: the line is cut off the buffer, stripped,
\* decoded and handed to the handler
HandLine ==
    /\ fpc = "split"
    /\ WorkerFree
    /\ HasNewline(buffer)
    /\ Strip(SplitMessage(buffer)) # <<>>
    /\ ValidUtf8(Strip(SplitMessage(buffer)))
    /\ buffer' = SplitRest(buffer)
    /\ delivered' = Append(delivered, Decode(Strip(SplitMessage(buffer))))
    /\ hAttempts' = 1
    /\ UNCHANGED <<stream, pos, fpc, returned, hRaised>>
    /\ UNCHANGED notFramingVars

\* one round of the while loop: the stripped line is empty, or decode raises
\* and the error is logged
SkipLine ==
    /\ fpc = "split"
    /\ WorkerFree
    /\ HasNewline(buffer)
    /\ \/ Strip(SplitMessage(buffer)) = <<>>
       \/ ~ValidUtf8(Strip(SplitMessage(buffer)))
    /\ buffer' = SplitRest(buffer)
    /\ UNCHANGED <<stream, pos, fpc, delivered, returned, hAttempts, hRaised>>
    /\ UNCHANGED notFramingVars

\* the buffer holds no newline: back to recv
NoLine ==
    /\ fpc = "split"
    /\ WorkerFree
    /\ ~HasNewline(buffer)
    /\ fpc' = "recv"
    /\ UNCHANGED <<stream, pos, buffer, delivered, returned, hAttempts, hRaised>>
    /\ UNCHANGED notFramingVars

\* inside the handler: an attempt fails, the engine backs off and retries
HandlerRetry ==
    /\ InHandler
    /\ hAttempts < max_retries
    /\ hAttempts' = hAttempts + 1
    /\ UNCHANGED <<stream, pos, buffer, fpc, delivered, returned, hRaised>>
    /\ UNCHANGED notFramingVars

\* the handler returns
HandlerReturn ==
    /\ InHandler
    /\ returned' = returned + 1
    /\ hAttempts' = 0
    /\ hRaised' = Append(hRaised, FALSE)
    /\ UNCHANGED <<stream, pos, buffer, fpc, delivered>>
    /\ UNCHANGED notFramingVars

\* the exception of the handler leaves the read loop
HandlerErrorBreaks(p) == "aborted"

\* except Exception as e: the error is logged inside the loop over the
\* lines of the buffer, which goes on where it was
AfterHandlerError(p) == p

\* the handler raises: json.loads or the message id fail, or an exception
\* leaves the engine's except clause
HandlerRaises ==
    /\ InHandler
    /\ returned' = returned + 1
    /\ hAttempts' = 0
    /\ hRaised' = Append(hRaised, TRUE)
    /\ fpc' = AfterHandlerError(fpc)
    /\ UNCHANGED <<stream, pos, buffer, delivered>>
    /\ UNCHANGED notFramingVars

FramingNext ==
    \/ \E n \in 1..MaxStream : Recv(n)
    \/ Eof
    \/ RecvFails
    \/ HandLine
    \/ SkipLine
    \/ NoLine
    \/ HandlerRetry
    \/ HandlerReturn
    \/ HandlerRaises

FramingSpec == FramingInit /\ [][FramingNext]_vars

(***************************************************************************)
(* StoreSpec: the parsers at the level of rows.  One worker hands          *)
(* envelopes to the parsers one after the other; an action is one whole    *)
(* parser run, from begin_nested() to commit() or to the rollback.         *)
(***************************************************************************)
\* envelopes handed to the parsers in one behaviour
MaxProcessed == 2

\* most names in the list "authors" of a publication entry
MaxNames == 2

Names == {"A", "B"}
\* the lists "authors" of the publication entries; a name that comes twice
\* stands for two names the author query resolves to one stored author
NameLists == UNION {[1..n -> Names] : n \in 0..MaxNames}
Titles == {"T", "U"}
ScholarAuthorIds == {"g1"}
PublicationIds == {"p1", "p2"}
CitesIds == {"c1", "c2"}
JournalTitles == {"J"}
ConferenceTitles == {"K"}
CitationIds == {"k1"}

\* dict.get(key, default)
Get(d, key, default) == IF key \in DOMAIN d THEN d[key] ELSE default

\* the metadata an envelope may carry: update_count and update_date, each
\* present or not
Metadata ==
    { [k \in {} |-> 0] }
        \cup { [update_count |-> c] : c \in {0, 3} }
        \cup { [update_date |-> t] : t \in {1, 2} }
        \cup { [update_count |-> c, update_date |-> t] : c \in {0, 3}, t \in {1, 2} }

\* the BaseEntity columns of a row; 0 is an update_count or an update_date
\* that was never set
Row(uc, date) == [update_count |-> uc, update_date |-> date]
NewRow == Row(0, 0)

NoRows == [k \in {} |-> NewRow]
EmptyStore == [t \in Tables |-> NoRows]

\* the row of table t stored under key k, or the object just constructed
RowOf(st, t, k) == IF k \in DOMAIN st[t] THEN st[t][k] ELSE NewRow

\* session.add(row) / attribute assignments on a row of the session
Put(st, t, k, r) ==
    [st EXCEPT ![t] = [x \in DOMAIN st[t] \cup {k} |-> IF x = k THEN r ELSE st[t][x]]]

\* the row is created when the query finds none; its BaseEntity columns are
\* not assigned
Ensure(st, t, k) == IF k \in DOMAIN st[t] THEN st ELSE Put(st, t, k, NewRow)

RECURSIVE EnsureAll(_, _, _)
EnsureAll(st, t, ks) ==
    IF ks = {} THEN st
    ELSE LET k == CHOOSE x \in ks : TRUE IN EnsureAll(Ensure(st, t, k), t, ks \ {k})

\* the rows of the tables listed that the run from st to st2 created or
\* changed, as <<table, key, existed, row before, row after>>
WritesBetween(st, st2) ==
    { [table |-> t, key |-> k, existed |-> k \in DOMAIN st[t],
       before |-> RowOf(st, t, k), after |-> st2[t][k]] :
         <<t, k>> \in { tk \in UNION { {<<t, k>> : k \in DOMAIN st2[t]} : t \in Tables } :
                           \/ tk[2] \notin DOMAIN st[tk[1]]
                           \/ st[tk[1]][tk[2]] # st2[tk[1]][tk[2]] } }

\* what the variant lookup of a run did: known, a row with the envelope's
\* identity column value was stored; found, the query returned a row
Lookup(known, found) == [known |-> known, found |-> found]
NoLookup == Lookup(FALSE, FALSE)

StoreInit ==
    /\ OutcomeOff
    /\ DedupOff
    /\ FifthOff
    /\ RetryOff
    /\ JournalOff
    /\ ScholarOff
    /\ pc = [w \in Workers |-> "recv"]
    /\ cur = [w \in Workers |-> NoEnvelope]
    /\ attempts = [w \in Workers |-> 0]
    /\ seen_messages = {}
    /\ errors = [k \in {} |-> ""]
    /\ db = EmptyDb
    /\ pending = [w \in Workers |-> NoWrites]
    /\ locks = [w \in Workers |-> {}]
    /\ orphan = [w \in Workers |-> {}]
    /\ started = [w \in Workers |-> 0]
    /\ handled = [w \in Workers |-> 0]
    /\ calls = [w \in Workers |-> 0]
    /\ fails = [w \in Workers |-> 0]
    /\ written = [w \in Workers |-> <<>>]
    /\ outcome = [w \in Workers |-> "none"]
    /\ perr = [w \in Workers |-> "none"]
    /\ lastErr = [w \in Workers |-> ""]
    /\ rolledBack = [w \in Workers |-> FALSE]
    /\ snap = [w \in Workers |-> EmptyDb]
    /\ persisted = {}
    /\ replay = [w \in Workers |-> FALSE]
    /\ stream = <<>>
    /\ pos = 0
    /\ buffer = <<>>
    /\ fpc = "off"
    /\ delivered = <<>>
    /\ returned = 0
    /\ hAttempts = 0
    /\ hRaised = <<>>
    /\ store = EmptyStore
    /\ author_coauthor = {}
    /\ clock = 1
    /\ processed = 0
    /\ lastRun = [parser |-> "none", raised |-> FALSE, writes |-> {}, lookup |-> NoLookup]
    /\ ServerOff
    /\ AssocOff

\* the parser run ended with commit(): the rows st and the links ls are stored
Committed(p, st, ls, lk) ==
    /\ processed < MaxProcessed
    /\ processed' = processed + 1
    /\ clock' = clock + 1
    /\ store' = st
    /\ author_coauthor' = ls
    /\ lastRun' = [parser |-> p, raised |-> FALSE, writes |-> WritesBetween(store, st),
                   lookup |-> lk]
    /\ UNCHANGED notStoreVars

\* the parser run ended in its except clause: rollback()
RolledBack(p, lk) ==
    /\ processed < MaxProcessed
    /\ processed' = processed + 1
    /\ clock' = clock + 1
    /\ lastRun' = [parser |-> p, raised |-> TRUE, writes |-> {}, lookup |-> lk]
    /\ UNCHANGED <<store, author_coauthor>>
    /\ UNCHANGED notStoreVars

\* ScholarAuthorParser._process_coauthors: the row (author, coauthor) is
\* added for every co-author named
ScholarCoauthorLinks(name, coauthors) == {<<name, c>> : c \in coauthors}

\* ScholarAuthorParser.process_google_scholar_data on an envelope naming the
\* author, its Google Scholar id, its co-authors and its publications
ProcessScholarAuthor(name, author_id, coauthors, publications) ==
    LET st1 == Ensure(store, "author", name)
        st2 == Ensure(st1, "google_scholar_author", author_id)
        st3 == EnsureAll(st2, "author", coauthors)
        st4 == EnsureAll(st3, "publication", publications)
    IN Committed("ScholarAuthorParser", st4,
                 author_coauthor \cup ScholarCoauthorLinks(name, coauthors), NoLookup)

\* the elements of a set as a list, in some order
RECURSIVE ListOf(_)
ListOf(S) == IF S = {} THEN <<>> ELSE LET x == CHOOSE y \in S : TRUE IN <<x>> \o ListOf(S \ {x})

\* PublicationAssociationProcessor._process_coauthors: the authors found
\* at every ordered pair of two different positions of the list authors;
\* an author found for two names stands at two positions
DblpCoauthorLinks(authors) ==
    {<<authors[p[1]], authors[p[2]]>> :
        p \in {q \in (DOMAIN authors) \X (DOMAIN authors) : q[1] # q[2]}}

\* PublicationAssociationProcessor.process_json on an envelope with one
\* publication entry of neither type: without a stored publication of that
\* title nothing is done; author names that match no stored author are
\* skipped
ProcessDblpAssoc(title, author_names) ==
    LET Stored(n) == n \in DOMAIN store["author"]
        found == SelectSeq(author_names, Stored)
    IN
    Committed("PublicationAssociationProcessor", store,
              IF title \in DOMAIN store["publication"]
              THEN author_coauthor \cup DblpCoauthorLinks(found)
              ELSE author_coauthor,
              NoLookup)

\* update_date = datetime.now(); update_count + 1 if update_count else 1
Stamp(r, date) ==
    [r EXCEPT !.update_date = date, !.update_count = NextUpdateCount(r.update_count)]

\* a GoogleScholarPublication object just constructed
NewScholarPublication(publication_id, cites_id) ==
    [update_count |-> 0, update_date |-> 0, publication_id |-> publication_id,
     cites_id |-> cites_id]

\* the query of _process_google_scholar_publication: the rows with the
\* envelope's publication_id and the envelope's cites_id
ScholarPublicationMatch(st, publication_id, cites_id) ==
    { k \in DOMAIN st["google_scholar_publication"] :
        /\ st["google_scholar_publication"][k].publication_id = publication_id
        /\ st["google_scholar_publication"][k].cites_id = cites_id }

\* the INSERT of a GoogleScholarPublication for the publication title is
\* rejected: its primary key id is the publication's id, its column
\* publication_id is unique
InsertRejected(st, title, publication_id) ==
    \/ title \in DOMAIN st["google_scholar_publication"]
    \/ \E k \in DOMAIN st["google_scholar_publication"] :
          st["google_scholar_publication"][k].publication_id = publication_id

\* ScholarPublicationParser.process_json.  Each of the two lookups runs inside
\* "with self.session:", which closes the session and detaches the row found;
\* a detached row's changes are flushed only when it comes back into the
\* session, the publication through the new GoogleScholarPublication that
\* refers to it
ProcessScholarPublication(title, publication_id, cites_id, authors) ==
    LET known == \E k \in DOMAIN store["google_scholar_publication"] :
                    store["google_scholar_publication"][k].publication_id = publication_id
        found == ScholarPublicationMatch(store, publication_id, cites_id) # {}
        lk == Lookup(known, found)
        isNew == title \notin DOMAIN store["publication"]
        st1 == IF isNew \/ ~found
               THEN Put(store, "publication", title, Stamp(RowOf(store, "publication", title), clock))
               ELSE store
        st2 == IF found THEN st1
               ELSE Put(st1, "google_scholar_publication", title,
                        Stamp(NewScholarPublication(publication_id, cites_id), clock))
        st3 == EnsureAll(st2, "author", authors)
    IN IF ~found /\ InsertRejected(store, title, publication_id)
       THEN RolledBack("ScholarPublicationParser", lk)
       ELSE Committed("ScholarPublicationParser", st3, author_coauthor, lk)

\* update_date = metadata.get("update_date" [, date]);
\* update_count = metadata.get("update_count", update_count + 1 if update_count else 1)
MetadataStamp(r, meta, date) ==
    [r EXCEPT !.update_date = Get(meta, "update_date", date),
              !.update_count = Get(meta, "update_count", NextUpdateCount(r.update_count))]

\* JournalParser.process_json on an envelope with one journal entry; the
\* envelope itself is the metadata
ProcessJournal(title, meta) ==
    Committed("JournalParser",
              Put(store, "journal", title, MetadataStamp(RowOf(store, "journal", title), meta, 0)),
              author_coauthor, NoLookup)

\* ConferenceProcessor.process_json on an envelope with one conference entry
ProcessConference(title, meta) ==
    Committed("ConferenceProcessor",
              Put(store, "conference", title,
                  MetadataStamp(RowOf(store, "conference", title), meta, 0)),
              author_coauthor, NoLookup)

\* ScholarCitationParser._find_publication: the rows with the cites_id
FindPublication(st, cites_id) ==
    { k \in DOMAIN st["google_scholar_publication"] :
        st["google_scholar_publication"][k].cites_id = cites_id }

\* ScholarCitationParser.process_json on an envelope with one citation entry,
\* which is the metadata of its row; without exactly one publication of the
\* envelope's cites_id the run ends in the except clause
ProcessScholarCitation(cites_id, citation_id, meta) ==
    LET pubs == FindPublication(store, cites_id) IN
    IF Cardinality(pubs) # 1
    THEN RolledBack("ScholarCitationParser", Lookup(pubs # {}, FALSE))
    ELSE LET publication == store["google_scholar_publication"][CHOOSE k \in pubs : TRUE] IN
         Committed("ScholarCitationParser",
                   Put(store, "google_scholar_citation", citation_id,
                       MetadataStamp(RowOf(store, "google_scholar_citation", citation_id),
                                     meta, publication.update_date)),
                   author_coauthor,
                   Lookup(citation_id \in DOMAIN store["google_scholar_citation"],
                          citation_id \in DOMAIN store["google_scholar_citation"]))

StoreNext ==
    \/ \E name \in Names, author_id \in ScholarAuthorIds, coauthors \in SUBSET Names,
          publications \in SUBSET Titles :
            ProcessScholarAuthor(name, author_id, coauthors, publications)
    \/ \E title \in Titles, author_names \in NameLists : ProcessDblpAssoc(title, author_names)
    \/ \E title \in Titles, publication_id \in PublicationIds, cites_id \in CitesIds,
          authors \in SUBSET Names :
            ProcessScholarPublication(title, publication_id, cites_id, authors)
    \/ \E title \in JournalTitles, meta \in Metadata : ProcessJournal(title, meta)
    \/ \E title \in ConferenceTitles, meta \in Metadata : ProcessConference(title, meta)
    \/ \E cites_id \in CitesIds, citation_id \in CitationIds, meta \in Metadata :
            ProcessScholarCitation(cites_id, citation_id, meta)

StoreSpec == StoreInit /\ [][StoreNext]_vars

(***************************************************************************)
(* ServerSpec: SynchroSocketServer after start(): the accept thread, the   *)
(* handle_client thread of every accepted connection, the reaper, and a    *)
(* thread that calls stop().                                               *)
(***************************************************************************)
\* last value of time.time()
MaxTime == 2
\* config value "max_unactive_connection_seconds"
max_unactive_connection_time == 0

EngineOff ==
    /\ pc = [w \in Workers |-> "recv"]
    /\ cur = [w \in Workers |-> NoEnvelope]
    /\ attempts = [w \in Workers |-> 0]
    /\ seen_messages = {}
    /\ errors = [k \in {} |-> ""]
    /\ db = EmptyDb
    /\ pending = [w \in Workers |-> NoWrites]
    /\ locks = [w \in Workers |-> {}]
    /\ orphan = [w \in Workers |-> {}]
    /\ started = [w \in Workers |-> 0]
    /\ handled = [w \in Workers |-> 0]
    /\ calls = [w \in Workers |-> 0]
    /\ fails = [w \in Workers |-> 0]
    /\ written = [w \in Workers |-> <<>>]
    /\ outcome = [w \in Workers |-> "none"]
    /\ perr = [w \in Workers |-> "none"]
    /\ lastErr = [w \in Workers |-> ""]
    /\ rolledBack = [w \in Workers |-> FALSE]
    /\ snap = [w \in Workers |-> EmptyDb]
    /\ persisted = {}
    /\ replay = [w \in Workers |-> FALSE]

FramingOff ==
    /\ stream = <<>>
    /\ pos = 0
    /\ buffer = <<>>
    /\ fpc = "off"
    /\ delivered = <<>>
    /\ returned = 0
    /\ hAttempts = 0
    /\ hRaised = <<>>

\* self.connections = {}
NoConnections == [x \in {} |-> 0]

\* self.connections[client_socket] = time.time()
SetActivity(conns, s, t) == [x \in DOMAIN conns \cup {s} |-> IF x = s THEN t ELSE conns[x]]

\* _remove_connection leaves the registry as it is
RemoveNothing(conns, s) == conns

\* _remove_connection empties the registry
RemoveAll(conns, s) == NoConnections

\* if client_socket in self.connections: del self.connections[client_socket]
RemoveFromRegistry(conns, s) == [x \in DOMAIN conns \ {s} |-> conns[x]]

\* the reaper's test never holds
InactiveNever(current_time, last_active) == FALSE

\* current_time - last_active > int(max_unactive_connection_time)
Inactive(current_time, last_active) ==
    current_time - last_active > max_unactive_connection_time

\* start(): is_running = True, the accept thread and the reaper started
ServerInit ==
    /\ OutcomeOff
    /\ DedupOff
    /\ FifthOff
    /\ RetryOff
    /\ JournalOff
    /\ ScholarOff
    /\ EngineOff
    /\ FramingOff
    /\ StoreOff
    /\ AssocOff
    /\ is_running = TRUE
    /\ server_socket = "open"
    /\ connections = NoConnections
    /\ sock = [s \in Sockets |-> "unborn"]
    /\ wpc = [s \in Sockets |-> "none"]
    /\ lpc = "test"
    /\ accepted = NoSocket
    /\ rpc = "test"
    /\ to_close = {}
    /\ removing = NoSocket
    /\ spc = "idle"
    /\ now = 0
    /\ lastScan = 0

\* time passes
Tick ==
    /\ now < MaxTime
    /\ now' = now + 1
    /\ UNCHANGED <<is_running, server_socket, connections, sock, wpc, lpc, accepted, rpc,
                   to_close, removing, spc, lastScan>>
    /\ UNCHANGED notServerVars

\* _listen_for_connections: while self.is_running
ListenTest ==
    /\ lpc = "test"
    /\ lpc' = IF is_running THEN "accept" ELSE "done"
    /\ UNCHANGED <<is_running, server_socket, connections, sock, wpc, accepted, rpc,
                   to_close, removing, spc, now, lastScan>>
    /\ UNCHANGED notServerVars

\* self.server_socket.accept() returns the socket s of a new connection
AcceptReturns(s) ==
    /\ lpc = "accept"
    /\ server_socket = "open"
    /\ sock[s] = "unborn"
    /\ sock' = [sock EXCEPT ![s] = "open"]
    /\ accepted' = s
    /\ lpc' = "register"
    /\ UNCHANGED <<is_running, server_socket, connections, wpc, rpc, to_close, removing,
                   spc, now, lastScan>>
    /\ UNCHANGED notServerVars

\* accept() raises on the closed listening socket; the error is logged when
\* is_running still holds
AcceptRaises ==
    /\ lpc = "accept"
    /\ server_socket = "closed"
    /\ lpc' = "test"
    /\ UNCHANGED <<is_running, server_socket, connections, sock, wpc, accepted, rpc,
                   to_close, removing, spc, now, lastScan>>
    /\ UNCHANGED notServerVars

\* with self.connection_lock: the accepted socket enters the registry; its
\* handle_client thread is started
RegisterAccepted ==
    /\ lpc = "register"
    /\ connections' = SetActivity(connections, accepted, now)
    /\ wpc' = [wpc EXCEPT ![accepted] = "recv"]
    /\ accepted' = NoSocket
    /\ lpc' = "test"
    /\ UNCHANGED <<is_running, server_socket, sock, rpc, to_close, removing, spc, now,
                   lastScan>>
    /\ UNCHANGED notServerVars

\* a step of the handle_client thread of socket s that moves it to position
\* to and touches nothing else
WorkerGoes(s, to) ==
    /\ wpc' = [wpc EXCEPT ![s] = to]
    /\ UNCHANGED <<is_running, server_socket, connections, sock, lpc, accepted, rpc,
                   to_close, removing, spc, now, lastScan>>
    /\ UNCHANGED notServerVars

\* recv returns a chunk of data
RecvData(s) == wpc[s] = "recv" /\ sock[s] = "open" /\ WorkerGoes(s, "touch")

\* recv returns b'': the peer closed, or the socket was shut down
RecvEof(s) == wpc[s] = "recv" /\ WorkerGoes(s, "del")

\* recv raises socket.timeout
RecvTimeout(s) == wpc[s] = "recv" /\ sock[s] = "open" /\ WorkerGoes(s, "del")

\* recv raises OSError: a network error, or the socket was closed
RecvError(s) == wpc[s] = "recv" /\ WorkerGoes(s, "del")

\* with self.connection_lock: self.connections[client_socket] = time.time()
TouchActivity(s) ==
    /\ wpc[s] = "touch"
    /\ connections' = SetActivity(connections, s, now)
    /\ wpc' = [wpc EXCEPT ![s] = "handle"]
    /\ UNCHANGED <<is_running, server_socket, sock, lpc, accepted, rpc, to_close, removing,
                   spc, now, lastScan>>
    /\ UNCHANGED notServerVars

\* the complete lines of the buffer are handed to the handler, which returns
HandlerReturns(s) == wpc[s] = "handle" /\ WorkerGoes(s, "recv")

\* the handler raises: the error is logged, the loop goes on
HandlerFails(s) == wpc[s] = "handle" /\ WorkerGoes(s, "recv")

\* finally: _remove_connection, the block under connection_lock
WorkerRemove(s) ==
    /\ wpc[s] = "del"
    /\ connections' = RemoveFromRegistry(connections, s)
    /\ wpc' = [wpc EXCEPT ![s] = "close"]
    /\ UNCHANGED <<is_running, server_socket, sock, lpc, accepted, rpc, to_close, removing,
                   spc, now, lastScan>>
    /\ UNCHANGED notServerVars

\* _remove_connection: shutdown and close, each error logged; the thread ends
WorkerClose(s) ==
    /\ wpc[s] = "close"
    /\ sock' = [sock EXCEPT ![s] = "closed"]
    /\ wpc' = [wpc EXCEPT ![s] = "done"]
    /\ UNCHANGED <<is_running, server_socket, connections, lpc, accepted, rpc, to_close,
                   removing, spc, now, lastScan>>
    /\ UNCHANGED notServerVars

\* _monitor_connections: while self.is_running; current_time = time.time();
\* under connection_lock the list to_close is computed
ReaperScan ==
    /\ rpc = "test"
    /\ IF is_running
       THEN /\ to_close' = {s \in DOMAIN connections : Inactive(now, connections[s])}
            /\ lastScan' = now
            /\ rpc' = "close"
       ELSE /\ rpc' = "done"
            /\ UNCHANGED <<to_close, lastScan>>
    /\ UNCHANGED <<is_running, server_socket, connections, sock, wpc, lpc, accepted,
                   removing, spc, now>>
    /\ UNCHANGED notServerVars

\* for sock in to_close: _remove_connection(sock, None), the block under
\* connection_lock
ReaperRemove(s) ==
    /\ rpc = "close"
    /\ s \in to_close
    /\ connections' = RemoveFromRegistry(connections, s)
    /\ to_close' = to_close \ {s}
    /\ removing' = s
    /\ rpc' = "shut"
    /\ UNCHANGED <<is_running, server_socket, sock, wpc, lpc, accepted, spc, now, lastScan>>
    /\ UNCHANGED notServerVars

\* _remove_connection: shutdown and close, each error logged
ReaperClose ==
    /\ rpc = "shut"
    /\ sock' = [sock EXCEPT ![removing] = "closed"]
    /\ removing' = NoSocket
    /\ rpc' = "close"
    /\ UNCHANGED <<is_running, server_socket, connections, wpc, lpc, accepted, to_close,
                   spc, now, lastScan>>
    /\ UNCHANGED notServerVars

\* the list is done: time.sleep(unactive_conn_listen_seconds)
ReaperSleep ==
    /\ rpc = "close"
    /\ to_close = {}
    /\ rpc' = "sleep"
    /\ UNCHANGED <<is_running, server_socket, connections, sock, wpc, lpc, accepted,
                   to_close, removing, spc, now, lastScan>>
    /\ UNCHANGED notServerVars

\* the sleep ends
ReaperWake ==
    /\ rpc = "sleep"
    /\ rpc' = "test"
    /\ UNCHANGED <<is_running, server_socket, connections, sock, wpc, lpc, accepted,
                   to_close, removing, spc, now, lastScan>>
    /\ UNCHANGED notServerVars

\* stop(): self.is_running = False
StopFlag ==
    /\ spc = "idle"
    /\ is_running' = FALSE
    /\ spc' = "close_server"
    /\ UNCHANGED <<server_socket, connections, sock, wpc, lpc, accepted, rpc, to_close,
                   removing, now, lastScan>>
    /\ UNCHANGED notServerVars

\* stop(): self.server_socket.close()
StopCloseServer ==
    /\ spc = "close_server"
    /\ server_socket' = "closed"
    /\ spc' = "close_all"
    /\ UNCHANGED <<is_running, connections, sock, wpc, lpc, accepted, rpc, to_close,
                   removing, now, lastScan>>
    /\ UNCHANGED notServerVars

\* stop(): under connection_lock every socket of the registry is shut down
\* and closed, then self.connections.clear()
StopCloseAll ==
    /\ spc = "close_all"
    /\ sock' = [s \in Sockets |-> IF s \in DOMAIN connections THEN "closed" ELSE sock[s]]
    /\ connections' = NoConnections
    /\ spc' = "join"
    /\ UNCHANGED <<is_running, server_socket, wpc, lpc, accepted, rpc, to_close, removing,
                   now, lastScan>>
    /\ UNCHANGED notServerVars

\* stop(): self.listener_thread.join() returns once the accept thread has
\* ended; stop() returns
StopJoin ==
    /\ spc = "join"
    /\ lpc = "done"
    /\ spc' = "returned"
    /\ UNCHANGED <<is_running, server_socket, connections, sock, wpc, lpc, accepted, rpc,
                   to_close, removing, now, lastScan>>
    /\ UNCHANGED notServerVars

ServerNext ==
    \/ Tick
    \/ ListenTest
    \/ \E s \in Sockets : AcceptReturns(s)
    \/ AcceptRaises
    \/ RegisterAccepted
    \/ \E s \in Sockets : RecvData(s)
    \/ \E s \in Sockets : RecvEof(s)
    \/ \E s \in Sockets : RecvTimeout(s)
    \/ \E s \in Sockets : RecvError(s)
    \/ \E s \in Sockets : TouchActivity(s)
    \/ \E s \in Sockets : HandlerReturns(s)
    \/ \E s \in Sockets : HandlerFails(s)
    \/ \E s \in Sockets : WorkerRemove(s)
    \/ \E s \in Sockets : WorkerClose(s)
    \/ ReaperScan
    \/ \E s \in Sockets : ReaperRemove(s)
    \/ ReaperClose
    \/ ReaperSleep
    \/ ReaperWake
    \/ StopFlag
    \/ StopCloseServer
    \/ StopCloseAll
    \/ StopJoin

ServerSpec == ServerInit /\ [][ServerNext]_vars

(***************************************************************************)
(* AssocSpec: PublicationAssociationProcessor.process_json on an envelope  *)
(* with one publication entry, against stored rows drawn from a small set. *)
(* The processor is run once; an action is the whole run, from             *)
(* begin_nested() to commit() or to rollback().                            *)
(***************************************************************************)
\* the characters of a conference acronym
Letters == {"A", "b"}
Separators == {"@", "/", "-"}

\* the acronyms an entry carries: one to three letters joined by separators
Acronyms ==
    {<<p>> : p \in Letters}
        \cup {<<p, s, q>> : p \in Letters, s \in Separators, q \in Letters}
        \cup {<<p, s, q, t, r>> : p \in Letters, s \in Separators, q \in Letters,
                                  t \in Separators, r \in Letters}

\* str.upper(), character by character; the default "unknown_conference" is
\* kept as one token
UpperChar(c) ==
    CASE c = "a" -> "A"
      [] c = "b" -> "B"
      [] c = "unknown_conference" -> "UNKNOWN_CONFERENCE"
      [] OTHER -> c
Upper(s) == [i \in 1..Len(s) |-> UpperChar(s[i])]

\* str.lower() on the titles and names of this specification
Lower(x) ==
    CASE x = "T" -> "t"
      [] x = "A" -> "a"
      [] x = "J" -> "j"
      [] OTHER -> x

\* sep in acronym
Contains(s, sep) == \E i \in 1..Len(s) : s[i] = sep

\* acronym.split(sep)
RECURSIVE Split(_, _)
Split(s, sep) ==
    IF ~Contains(s, sep) THEN <<s>>
    ELSE LET i == CHOOSE k \in 1..Len(s) : s[k] = sep /\ \A j \in 1..(k - 1) : s[j] # sep
         IN <<SubSeq(s, 1, i - 1)>> \o Split(SubSeq(s, i + 1, Len(s)), sep)

NoConference == <<>>
NoJournal == ""
None == "None"

\* find_conference: the stored conference whose acronym scores 0.94 or more
\* against the part, best score first; among the acronyms of this
\* specification only an equal one reaches 0.94
find_conference(tb, acronym_part) ==
    IF acronym_part \in DOMAIN tb.conference THEN acronym_part ELSE NoConference

\* for part in parts: conference = find_conference(part); break when found;
\* candidates.add(part)
RECURSIVE ProbeParts(_, _, _)
ProbeParts(tb, parts, st) ==
    IF parts = <<>> THEN st
    ELSE LET conference == find_conference(tb, Head(parts)) IN
         IF conference # NoConference
         THEN [st EXCEPT !.conference = conference]
         ELSE ProbeParts(tb, Tail(parts), [st EXCEPT !.candidates = @ \cup {Head(parts)}])

\* if not conference and sep in acronym: parts = acronym.split(sep);
\* if len(parts) > 1: probe the parts
ProbeSplit(tb, acronym, sep, st) ==
    IF st.conference = NoConference /\ Contains(acronym, sep)
    THEN LET parts == Split(acronym, sep) IN
         IF Len(parts) > 1 THEN ProbeParts(tb, parts, st) ELSE st
    ELSE st

\* the splits are tried on "/" first, then on "@", then on "-"
ProbeSlashFirst(tb, acronym) ==
    ProbeSplit(tb, acronym, "-",
        ProbeSplit(tb, acronym, "@",
            ProbeSplit(tb, acronym, "/",
                [conference |-> find_conference(tb, acronym), candidates |-> {}])))

\* the raw acronym, then the splits on "@", on "/" and on "-"
Probe(tb, acronym) ==
    ProbeSplit(tb, acronym, "-",
        ProbeSplit(tb, acronym, "/",
            ProbeSplit(tb, acronym, "@",
                [conference |-> find_conference(tb, acronym), candidates |-> {}])))

\* acronym if len(candidates) == 0 else candidates.pop(): set.pop() removes
\* an arbitrary element of the set
PopResults(acronym, candidates) == IF candidates = {} THEN {acronym} ELSE candidates

\* pub_data["type"] raises KeyError
TypeRaises(pub_data) == "type" \notin DOMAIN pub_data

\* the query of _process_publication finds a stored publication
PublicationFound(tb, pub_data) ==
    Lower(Get(pub_data, "title", "unknown_title")) \in DOMAIN tb.publication

\* the entry reaches _process_conference
ReachesConference(tb, pub_data) ==
    /\ PublicationFound(tb, pub_data)
    /\ ~TypeRaises(pub_data)
    /\ pub_data.type = "Conference"

\* the acronyms the Conference object constructed by the run may get; none
\* when a stored conference is found
NewAcronyms(tb, acronym) ==
    LET pr == Probe(tb, acronym) IN
    IF pr.conference # NoConference THEN {NoConference} ELSE PopResults(acronym, pr.candidates)

\* the outcomes of candidates.pop() in a run on the entry
PopOutcomes(tb, pub_data) ==
    IF ReachesConference(tb, pub_data)
    THEN NewAcronyms(tb, Upper(Get(pub_data, "conference_acronym", <<"unknown_conference">>)))
    ELSE {NoConference}

\* publication.conference = conference / publication.journal = journal
Attach(tb, title, column, ref) ==
    [tb EXCEPT !.publication = [@ EXCEPT ![title] = [@ EXCEPT ![column] = ref]]]

\* _process_conference; new_acronym is what candidates.pop() returned
process_conference(tb, title, pub_data, new_acronym) ==
    LET acronym == Upper(Get(pub_data, "conference_acronym", <<"unknown_conference">>))
        conference == Probe(tb, acronym).conference
    IN IF conference # NoConference
       THEN Attach(tb, title, "conference", conference)
       ELSE Attach([tb EXCEPT !.conference =
                        [a \in DOMAIN tb.conference \cup {new_acronym} |->
                            IF a = new_acronym THEN "Unranked" ELSE tb.conference[a]]],
                   title, "conference", new_acronym)

\* a Journal object constructed by _process_journal
NewJournal(year) == [year |-> year, type |-> "journal", q_rank |-> "N/A"]

\* _process_journal
process_journal(tb, title, pub_data) ==
    LET journal_name == Lower(Get(pub_data, "journal_name", "unknown_journal"))
        journal_year == Get(pub_data, "publication_year", None)
    IN IF journal_name \in DOMAIN tb.journal
       THEN Attach(tb, title, "journal", journal_name)
       ELSE Attach([tb EXCEPT !.journal =
                        [j \in DOMAIN tb.journal \cup {journal_name} |->
                            IF j = journal_name THEN NewJournal(journal_year)
                            ELSE tb.journal[j]]],
                   title, "journal", journal_name)

\* every name of the entry counts as a stored author
AuthorsAll(tb, author_names) == {Lower(n) : n \in author_names}

\* the stored authors the names of the entry match; a name that matches none
\* is skipped
AuthorsFound(tb, author_names) == {Lower(n) : n \in author_names} \cap tb.author

\* _process_authors and _process_coauthors
process_authors(tb, title, author_names) ==
    LET authors == AuthorsFound(tb, author_names) IN
    [tb EXCEPT !.publication_author = @ \cup {<<title, a>> : a \in authors},
               !.author_coauthor = @ \cup DblpCoauthorLinks(ListOf(authors))]

\* _process_publication up to the first exception, if any
process_publication(tb, pub_data, new_acronym) ==
    LET title == Lower(Get(pub_data, "title", "unknown_title")) IN
    IF ~PublicationFound(tb, pub_data) THEN tb
    ELSE LET tb1 == process_authors(tb, title, Get(pub_data, "authors", {})) IN
         IF TypeRaises(pub_data) THEN tb1
         ELSE IF pub_data.type = "Journal" THEN process_journal(tb1, title, pub_data)
         ELSE IF pub_data.type = "Conference"
              THEN process_conference(tb1, title, pub_data, new_acronym)
         ELSE tb1

DblpTitles == {"t", "T", "u"}
DblpNames == {"A", "b"}

\* the publication entries of the envelopes
PubData ==
    LET Base == {[authors |-> as] : as \in SUBSET DblpNames}
                    \cup {[title |-> t, authors |-> as] : t \in DblpTitles, as \in SUBSET DblpNames}
                    \cup {[title |-> t] : t \in DblpTitles}
        Typed == [title : DblpTitles, authors : SUBSET DblpNames]
    IN Base
        \cup {[title |-> b.title, authors |-> b.authors, type |-> "Book"] : b \in Typed}
        \cup {[title |-> b.title, authors |-> b.authors, type |-> "Journal", journal_name |-> n] :
                  b \in Typed, n \in {"j", "J"}}
        \cup {[title |-> b.title, authors |-> b.authors, type |-> "Journal", journal_name |-> "j",
               publication_year |-> 2020] : b \in Typed}
        \cup {[title |-> b.title, authors |-> b.authors, type |-> "Journal"] : b \in Typed}
        \cup {[title |-> b.title, authors |-> b.authors, type |-> "Conference"] : b \in Typed}
        \cup {[title |-> b.title, authors |-> b.authors, type |-> "Conference",
               conference_acronym |-> a] : b \in Typed, a \in Acronyms}

\* the conferences and journals other parsers may have stored
StoredAcronyms == {<<"A">>, <<"B">>, <<"A", "@", "B">>}
StoredJournals == {"j"}

NoRun == [done |-> FALSE]

AssocInit ==
    /\ OutcomeOff
    /\ DedupOff
    /\ FifthOff
    /\ RetryOff
    /\ JournalOff
    /\ ScholarOff
    /\ EngineOff
    /\ FramingOff
    /\ StoreOff
    /\ ServerOff
    /\ \E cs \in SUBSET StoredAcronyms, js \in SUBSET StoredJournals :
          dblp = [publication |-> [t \in {"t"} |-> [journal |-> NoJournal,
                                                    conference |-> NoConference]],
                  conference |-> [a \in cs |-> "A*"],
                  journal |-> [j \in js |-> [year |-> 2019, type |-> "journal", q_rank |-> "Q1"]],
                  author |-> {"a"},
                  publication_author |-> {},
                  author_coauthor |-> {}]
    /\ dblpRun = NoRun

\* process_json: the run commits, or an exception makes it roll back
ProcessAssoc(pub_data, new_acronym) ==
    /\ ~dblpRun.done
    /\ new_acronym \in PopOutcomes(dblp, pub_data)
    /\ LET raised == PublicationFound(dblp, pub_data) /\ TypeRaises(pub_data) IN
       /\ dblp' = IF raised THEN dblp ELSE process_publication(dblp, pub_data, new_acronym)
       /\ dblpRun' = [done |-> TRUE, pub_data |-> pub_data, before |-> dblp, raised |-> raised]
    /\ UNCHANGED notAssocVars

AssocNext ==
    /\ ~dblpRun.done
    /\ \E pub_data \in PubData :
          \E new_acronym \in PopOutcomes(dblp, pub_data) : ProcessAssoc(pub_data, new_acronym)

AssocSpec == AssocInit /\ [][AssocNext]_vars

(***************************************************************************)
(* ScholarSpec: ScholarPublicationParser.process_json on one envelope,     *)
(* against stored rows drawn from a small set.  The parser is run once; an *)
(* action is the whole run.                                                *)
(***************************************************************************)
\* author names: characters, " " between the words
ScholarNames == { <<>>,
                  <<"J", " ", "S">>,
                  <<" ", "J", " ", "S">>,
                  <<"J", "o", " ", "S">> }

\* text.split()[0] for a text with a word in it
FirstWord(text) ==
    LET t == LStrip(text)
        n == IF \E i \in 1..Len(t) : t[i] \in Whitespace
             THEN (CHOOSE i \in 1..Len(t) : t[i] \in Whitespace
                                            /\ \A j \in 1..(i - 1) : t[j] \notin Whitespace) - 1
             ELSE Len(t)
    IN SubSeq(t, 1, n)

\* StringUtils.is_first_word_short
is_first_word_short(text) ==
    IF LStrip(text) = <<>> THEN FALSE ELSE Len(FirstWord(text)) <= 1

\* int(text); 0 stands for a text int() rejects with ValueError
IntOf(text) ==
    CASE text = "2020" -> 2020
      [] text = "2021" -> 2021
      [] OTHER -> 0

\* the optional fields of a publication envelope and the values it carries
OptionalFields == {"publication_date", "publication_url", "pages", "publisher",
                   "description", "cites_id"}
FieldValue(k) ==
    CASE k = "publication_date" -> "2021"
      [] k = "publication_url" -> "url2"
      [] k = "pages" -> "pp2"
      [] k = "publisher" -> "pub2"
      [] k = "description" -> "d2"
      [] k = "cites_id" -> "c1"

\* the envelopes: title and publication_id, a list of authors, any of the
\* optional fields; one envelope without title, one without publication_id,
\* one whose publication_date is no number
JsonData ==
    { [k \in {"title", "publication_id", "authors"} \cup ks |->
          CASE k = "title" -> "T"
            [] k = "publication_id" -> p
            [] k = "authors" -> as
            [] OTHER -> FieldValue(k)] :
        p \in PublicationIds, as \in SUBSET ScholarNames, ks \in SUBSET OptionalFields }
        \cup { [publication_id |-> "p1"], [title |-> "T"],
               [title |-> "T", publication_id |-> "p1", publication_date |-> "n.d."] }

\* the column of Publication each field is written to
FieldOf(column) ==
    CASE column = "url" -> "publication_url"
      [] column = "publication_year" -> "publication_date"
      [] column = "pages" -> "pages"
      [] column = "publisher" -> "publisher"
      [] column = "description" -> "description"
PublicationColumns == {"url", "publication_year", "pages", "publisher", "description"}

\* "title" not in json_data or "publication_id" not in json_data: ValueError
MissingRequired(json_data) ==
    "title" \notin DOMAIN json_data \/ "publication_id" \notin DOMAIN json_data

\* the query of _process_publication finds the row of the title
ScholarPublicationFound(tb, json_data) == json_data.title \in DOMAIN tb.publication

\* int(json_data.get("publication_date")) on the insert path raises TypeError
\* for None, json_data["publication_date"] on the update path raises
\* KeyError; int() raises ValueError for a text that is no number
DateRaises(json_data) ==
    \/ "publication_date" \notin DOMAIN json_data
    \/ IntOf(json_data.publication_date) = 0

\* the values assigned to the columns, on the insert and on the update path:
\* json_data.get(field) is None for an absent field
AssignedColumns(json_data) ==
    [column \in PublicationColumns |->
        IF column = "publication_year" THEN IntOf(json_data.publication_date)
        ELSE Get(json_data, FieldOf(column), None)]

\* the query of _process_google_scholar_publication finds a row
VariantFound(tb, json_data) ==
    \E g \in tb.google_scholar_publication :
        /\ g.publication_id = json_data.publication_id
        /\ g.cites_id = Get(json_data, "cites_id", None)

\* the INSERT of the new GoogleScholarPublication is rejected: its primary
\* key is the publication's id, its column publication_id is unique
VariantRejected(tb, json_data) ==
    \E g \in tb.google_scholar_publication :
        g.title = json_data.title \/ g.publication_id = json_data.publication_id

\* _process_publication and _process_google_scholar_publication.  The lookup
\* of each runs inside "with self.session:", which closes the session and
\* detaches the row found; the assignments to a detached Publication reach
\* the database only when the new GoogleScholarPublication, which refers to
\* it, is added to the session
scholar_process_publication(tb, json_data) ==
    LET flushed == ~ScholarPublicationFound(tb, json_data) \/ ~VariantFound(tb, json_data)
        tb1 == IF flushed
               THEN [tb EXCEPT !.publication =
                        [t \in DOMAIN tb.publication \cup {json_data.title} |->
                            IF t = json_data.title THEN AssignedColumns(json_data)
                            ELSE tb.publication[t]]]
               ELSE tb
    IN IF VariantFound(tb, json_data) THEN tb1
       ELSE [tb1 EXCEPT !.google_scholar_publication =
                @ \cup {[title |-> json_data.title,
                         publication_id |-> json_data.publication_id,
                         cites_id |-> Get(json_data, "cites_id", None)]}]

\* _process_authors: every name that is not empty gets its Author row and
\* its link to the publication
scholar_process_authors(tb, json_data) ==
    LET names == {n \in Get(json_data, "authors", {}) : n # <<>>} IN
    [tb EXCEPT !.author = @ \cup names,
               !.publication_author = @ \cup {<<json_data.title, n>> : n \in names}]

\* the run leaves process_json with an exception
ScholarRaises(tb, json_data) ==
    \/ MissingRequired(json_data)
    \/ DateRaises(json_data)
    \/ ~VariantFound(tb, json_data) /\ VariantRejected(tb, json_data)

StoredPublication ==
    [url |-> "url1", publication_year |-> 2020, pages |-> "pp1", publisher |-> "pub1",
     description |-> "d1"]
StoredVariant == [title |-> "T", publication_id |-> "p1", cites_id |-> "c1"]

ScholarInit ==
    /\ OutcomeOff
    /\ DedupOff
    /\ FifthOff
    /\ RetryOff
    /\ JournalOff
    /\ EngineOff
    /\ FramingOff
    /\ StoreOff
    /\ ServerOff
    /\ AssocOff
    /\ \E ps \in SUBSET {"T"}, gs \in SUBSET {StoredVariant}, as \in SUBSET {<<"J", "o", " ", "S">>} :
          /\ gs # {} => ps # {}
          /\ scholar = [publication |-> [t \in ps |-> StoredPublication],
                        google_scholar_publication |-> gs,
                        author |-> as,
                        publication_author |-> {}]
    /\ scholarRun = NoRun

\* process_json: commit(), or an exception before it
ProcessScholar(json_data) ==
    /\ ~scholarRun.done
    /\ LET raised == ScholarRaises(scholar, json_data) IN
       /\ scholar' = IF raised THEN scholar
                     ELSE scholar_process_authors(
                              scholar_process_publication(scholar, json_data), json_data)
       /\ scholarRun' = [done |-> TRUE, json_data |-> json_data, before |-> scholar,
                         raised |-> raised]
    /\ UNCHANGED notScholarVars

ScholarNext ==
    /\ ~scholarRun.done
    /\ \E json_data \in JsonData : ProcessScholar(json_data)

ScholarSpec == ScholarInit /\ [][ScholarNext]_vars

(***************************************************************************)
(* JournalSpec: JournalParser.process_json on an envelope with one journal *)
(* entry, against stored rows drawn from a small set.  The parser is run   *)
(* once; an action is the whole run.                                       *)
(***************************************************************************)
\* the columns _process_journal assigns as journal_data.get(column, stored)
DefaultedColumns == {"link", "sjr", "q_rank", "h_index", "total_docs", "total_docs_3years",
                     "total_refs", "total_cites_3years", "citable_docs_3years",
                     "cites_per_doc_2years", "refs_per_doc", "female_percent"}
JournalColumns == DefaultedColumns \cup {"year", "type"}

\* the sets of fields a journal entry carries besides its title
EntryFields ==
    { ks \cup rest : ks \in SUBSET {"type", "year", "link"},
                     rest \in {{}, DefaultedColumns \ {"link"}} }

\* the value an entry carries for a field, the value a stored row holds
EntryValue(column) == IF column = "year" THEN 2024 ELSE "new"
StoredValue(column) == IF column = "year" THEN 1999 ELSE "old"

\* the journal entries: a title and some of the fields; one without a title
JournalData ==
    { [k \in {"title"} \cup ks |-> IF k = "title" THEN t ELSE EntryValue(k)] :
        t \in {"j", "n"}, ks \in EntryFields }
        \cup { [link |-> "new"] }

\* the metadata of the envelope of the entry
JournalMetadata == { [k \in {} |-> 0], [update_count |-> 3, update_date |-> 2] }

\* the titles of the rows other envelopes stored
StoredTitles == {"j", "jj", "q"}

\* word_similarity(Journal.title, title) of the database, in hundredths
word_similarity(stored, title) ==
    CASE stored = title -> 100
      [] stored = "jj" /\ title = "j" -> 80
      [] stored = "q" /\ title = "j" -> 20
      [] OTHER -> 0

\* ... > 0.7
JournalThreshold == 70

\* the rows the filter of the query lets through
JournalMatches(rows, title) ==
    {k \in DOMAIN rows : word_similarity(k, title) > JournalThreshold}

\* .first() of a query without ORDER BY: whichever matching row the database
\* returns first
FirstOf(rows, title) == JournalMatches(rows, title)

\* year = journal_data.get("year"); if not year: year = 0
YearOf(journal_data) ==
    IF "year" \notin DOMAIN journal_data THEN 0
    ELSE IF journal_data.year = 0 THEN 0 ELSE journal_data.year

\* Journal(title=title, type=journal_data["type"], link=journal_data.get("link"), ...)
InsertedJournal(journal_data) ==
    [c \in JournalColumns \cup {"update_count", "update_date"} |->
        IF c = "year" THEN YearOf(journal_data)
        ELSE IF c \in {"update_count", "update_date"} THEN 0
        ELSE Get(journal_data, c, None)]

\* journal.link = journal_data.get("link", journal.link), ...; journal.year = year
UpdatedJournal(row, journal_data) ==
    [c \in DOMAIN row |->
        IF c \in DefaultedColumns THEN Get(journal_data, c, row[c])
        ELSE IF c = "year" THEN YearOf(journal_data)
        ELSE row[c]]

\* journal_data["title"], or journal_data["type"] on the insert path, raises
\* KeyError
JournalRaises(rows, journal_data) ==
    \/ "title" \notin DOMAIN journal_data
    \/ /\ JournalMatches(rows, journal_data.title) = {}
       /\ "type" \notin DOMAIN journal_data

\* the rows FirstOf may return for the entry; None when the filter lets no
\* row through or the entry has no title
Picks(rows, journal_data) ==
    IF "title" \notin DOMAIN journal_data \/ JournalMatches(rows, journal_data.title) = {}
    THEN {None}
    ELSE FirstOf(rows, journal_data.title)

\* _process_journal; found is the row the query returned
journal_process_journal(rows, journal_data, meta, found) ==
    LET key == IF found = None THEN journal_data.title ELSE found
        row == IF found = None THEN InsertedJournal(journal_data)
               ELSE UpdatedJournal(rows[found], journal_data)
    IN [k \in DOMAIN rows \cup {key} |->
           IF k = key THEN MetadataStamp(row, meta, 0) ELSE rows[k]]

JournalInit ==
    /\ OutcomeOff
    /\ DedupOff
    /\ FifthOff
    /\ RetryOff
    /\ EngineOff
    /\ FramingOff
    /\ StoreOff
    /\ ServerOff
    /\ AssocOff
    /\ ScholarOff
    /\ \E ts \in SUBSET StoredTitles :
          journal = [t \in ts |->
                        [c \in JournalColumns \cup {"update_count", "update_date"} |->
                            IF c \in {"update_count", "update_date"} THEN 1
                            ELSE StoredValue(c)]]
    /\ journalRun = NoRun

\* process_json: commit(), or an exception before it
ProcessJournalEntry(journal_data, meta, found) ==
    /\ ~journalRun.done
    /\ found \in Picks(journal, journal_data)
    /\ LET raised == JournalRaises(journal, journal_data) IN
       /\ journal' = IF raised THEN journal
                     ELSE journal_process_journal(journal, journal_data, meta, found)
       /\ journalRun' = [done |-> TRUE, journal_data |-> journal_data, before |-> journal,
                         found |-> found, raised |-> raised]
    /\ UNCHANGED notJournalVars

JournalNext ==
    /\ ~journalRun.done
    /\ \E journal_data \in JournalData, meta \in JournalMetadata :
          \E found \in Picks(journal, journal_data) :
              ProcessJournalEntry(journal_data, meta, found)

JournalSpec == JournalInit /\ [][JournalNext]_vars

(***************************************************************************)
(* RetrySpec: one call of process_listened_message for a well-formed       *)
(* message of a routed kind that no other call handles: the sessions it    *)
(* obtains and the sleeps between its attempts.                            *)
(***************************************************************************)
\* config values "delay_secs", in hundredths of a second
Delays == {0, 50, 100}

\* random.uniform(-0.2, 0.2), in hundredths
JittersWide == {-50, 0, 50}
Jitters == {-20, -10, 0, 10, 20}

Max(a, b) == IF a > b THEN a ELSE b

\* delta = random.uniform(-0.2, 0.2) * delay; sleep_time = max(0, delay + delta)
SleepTime(d, jitter) == Max(0, d + (jitter * d) \div 100)

\* the parsers whose process_json ends with finally: self.session.close()
ClosesSession(p) == p \in {"PublicationAssociationProcessor", "ScholarCitationParser"}

\* what can arrive at the except clauses of the parser's entry method: the
\* errors of its body and the error of commit()
RetryErrors(p) == CanRaise(p) \cup {"SQLAlchemyError"}

\* the session after commit() or rollback(), and after the finally clause
\* where the parser has one
Ended(p) == IF ClosesSession(p) THEN "closed" ELSE "idle"

SetLast(seq, v) == [seq EXCEPT ![Len(seq)] = v]

RetryInit ==
    /\ OutcomeOff
    /\ DedupOff
    /\ FifthOff
    /\ EngineOff
    /\ FramingOff
    /\ StoreOff
    /\ ServerOff
    /\ AssocOff
    /\ ScholarOff
    /\ JournalOff
    /\ rpos = "test"
    /\ tries = 0
    /\ made = 0
    /\ sessions = <<>>
    /\ sleeps = <<>>
    /\ delay \in Delays
    /\ routed \in Parsers

\* while attempts < max_retries: the message_lock block admits the id, the
\* engine takes a session and calls the parser, which opens its nested
\* transaction
Attempt ==
    /\ rpos = "test"
    /\ tries < max_retries
    /\ made' = made + 1
    /\ sessions' = Append(sessions, "active")
    /\ rpos' = "parser"
    /\ UNCHANGED <<tries, sleeps, delay, routed>>
    /\ UNCHANGED notRetryVars

\* the parser commits and returns; the engine logs success and returns
ParserReturns ==
    /\ rpos = "parser"
    /\ sessions' = SetLast(sessions, Ended(routed))
    /\ rpos' = "returned"
    /\ UNCHANGED <<tries, made, sleeps, delay, routed>>
    /\ UNCHANGED notRetryVars

\* an exception arrives at the except clauses of the parser: a clause that
\* catches it calls rollback(); otherwise the exception leaves the parser
\* with the transaction of the session open
ParserRaises(err) ==
    /\ rpos = "parser"
    /\ err \in RetryErrors(routed)
    /\ sessions' = IF Catches(routed, err) THEN SetLast(sessions, Ended(routed)) ELSE sessions
    /\ rpos' = IF Catches(routed, err) /\ Swallows(routed) THEN "returned" ELSE "except"
    /\ UNCHANGED <<tries, made, sleeps, delay, routed>>
    /\ UNCHANGED notRetryVars

\* the except clause of the engine on the last attempt: the dead-letter
\* entry, break
ExceptLast ==
    /\ rpos = "except"
    /\ IsLastAttempt(tries)
    /\ rpos' = "returned"
    /\ UNCHANGED <<tries, made, sessions, sleeps, delay, routed>>
    /\ UNCHANGED notRetryVars

\* the except clause of the engine on an earlier attempt: sleep_time is
\* computed, then attempts += 1 and time.sleep(sleep_time)
ExceptRetry(jitter) ==
    /\ rpos = "except"
    /\ ~IsLastAttempt(tries)
    /\ tries' = tries + 1
    /\ sleeps' = Append(sleeps, SleepTime(delay, jitter))
    /\ rpos' = "test"
    /\ UNCHANGED <<made, sessions, delay, routed>>
    /\ UNCHANGED notRetryVars

RetryNext ==
    \/ Attempt
    \/ ParserReturns
    \/ \E err \in ErrorClasses : ParserRaises(err)
    \/ ExceptLast
    \/ \E jitter \in Jitters : ExceptRetry(jitter)

RetrySpec == RetryInit /\ [][RetryNext]_vars

(***************************************************************************)
(* FifthSpec: one call of StringUtils.first_after_fifth                    *)
(***************************************************************************)
\* longest text of the specification, in characters
MaxText == 6

TextChars == {"x", "y", " "}

\* the title of the example in StringUtils.py line 53
Avalanche ==
    <<"a", "v", "a", "l", "a", "n", "c", "h", "e", ":", " ", "a", " ",
      "p", "y", "t", "o", "r", "c", "h", " ", "l", "i", "b", "r", "a", "r", "y", " ",
      "f", "o", "r", " ", "d", "e", "e", "p", " ",
      "c", "o", "n", "t", "i", "n", "u", "a", "l", " ",
      "l", "e", "a", "r", "n", "i", "n", "g">>

Texts == UNION {[1..n -> TextChars] : n \in 0..MaxText} \cup {Avalanche}

\* None; text.split() holds no empty word
NoWord == <<>>

\* text.split(): the runs of characters between whitespace
RECURSIVE Words(_)
Words(text) ==
    LET t == LStrip(text)
    IN IF t = <<>> THEN <<>>
       ELSE <<FirstWord(t)>> \o Words(SubSeq(t, Len(FirstWord(t)) + 1, Len(t)))

\* for i, word in enumerate(words): the loop from word i on (i from 1)
RECURSIVE ScanWords(_, _, _, _)
ScanWords(words, i, current_index, fifth_index) ==
    IF i > Len(words) THEN NoWord
    ELSE LET word == words[i]
             next_index == current_index + Len(word)
         IN IF current_index <= fifth_index /\ fifth_index < next_index
            THEN IF Len(word) < 2
                 THEN IF i + 1 <= Len(words) THEN words[i + 1] ELSE NoWord
                 ELSE word
            ELSE ScanWords(words, i + 1, next_index + 1, fifth_index)

\* StringUtils.first_after_fifth
first_after_fifth(text) ==
    IF text = <<>> THEN NoWord
    ELSE LET total_chars == Len(Strip(text))
             fifth_index == total_chars \div 5
         IN ScanWords(Words(text), 1, 0, fifth_index)

FifthInit ==
    /\ OutcomeOff
    /\ DedupOff
    /\ RetryOff
    /\ JournalOff
    /\ ScholarOff
    /\ AssocOff
    /\ EngineOff
    /\ FramingOff
    /\ StoreOff
    /\ ServerOff
    /\ \E text \in Texts : fifthRun = [done |-> FALSE, text |-> text]

\* first_word = StringUtils.first_after_fifth(title)
CallFirstAfterFifth ==
    /\ ~fifthRun.done
    /\ fifthRun' = [done |-> TRUE, text |-> fifthRun.text,
                    returned |-> first_after_fifth(fifthRun.text)]
    /\ UNCHANGED notFifthVars

FifthNext == CallFirstAfterFifth

FifthSpec == FifthInit /\ [][FifthNext]_vars

(***************************************************************************)
(* DedupSpec: the message_lock block of two calls, one after the other     *)
(***************************************************************************)
\* class_id, variant_id and _id as senders can set them: the kind of a
\* scholar publication and values whose decimal digits overlap with it
DedupClassIds == {Publication_CLASS_ID, 101}
DedupVariantIds == {GoogleScholarPublication_VARIANT_ID, 5, 0}
DedupIds == {"1", "01"}
DedupEnvelopes ==
    {Envelope(c, v, i) : c \in DedupClassIds, v \in DedupVariantIds, i \in DedupIds}

DedupInit ==
    /\ OutcomeOff
    /\ FifthOff
    /\ RetryOff
    /\ JournalOff
    /\ ScholarOff
    /\ AssocOff
    /\ EngineOff
    /\ FramingOff
    /\ StoreOff
    /\ ServerOff
    /\ \E e1 \in DedupEnvelopes, e2 \in DedupEnvelopes :
          dedupRun = [envelopes |-> <<e1, e2>>, seen |-> {}, did |-> <<>>]

\* with ScraperListener.message_lock, first attempt of the next call:
\* return when message_id is in seen_messages, else add it
CheckSeen ==
    /\ Len(dedupRun.did) < Len(dedupRun.envelopes)
    /\ LET e == dedupRun.envelopes[Len(dedupRun.did) + 1]
           id == message_id(e)
       IN dedupRun' =
              IF id \in dedupRun.seen
              THEN [dedupRun EXCEPT !.did = Append(@, "dropped")]
              ELSE [dedupRun EXCEPT !.seen = @ \cup {id}, !.did = Append(@, "admitted")]
    /\ UNCHANGED notDedupVars

DedupNext == CheckSeen

DedupSpec == DedupInit /\ [][DedupNext]_vars

(***************************************************************************)
(* OutcomeSpec: one call of process_listened_message for a well-formed     *)
(* envelope, under every value of the config value "max_retries"           *)
(***************************************************************************)
\* largest value of "max_retries" of the specification
MaxBudget == 3

\* what the routing chain does with the envelope
Routes == Parsers \cup {"Invalid"}

OutcomeInit ==
    /\ DedupOff
    /\ FifthOff
    /\ RetryOff
    /\ JournalOff
    /\ ScholarOff
    /\ AssocOff
    /\ EngineOff
    /\ FramingOff
    /\ StoreOff
    /\ ServerOff
    /\ \E budget \in 0..MaxBudget, route \in Routes, seen \in BOOLEAN :
          callRun = [max_retries |-> budget, route |-> route, seen |-> seen,
                     pos |-> "test", attempts |-> 0, calls |-> 0, written |-> 0,
                     outcome |-> "none"]

\* while attempts < max_retries; when the test fails the function ends
LoopTest ==
    /\ callRun.pos = "test"
    /\ callRun' = IF callRun.attempts < callRun.max_retries
                  THEN [callRun EXCEPT !.pos = "lock"]
                  ELSE [callRun EXCEPT !.pos = "returned"]
    /\ UNCHANGED notOutcomeVars

\* the message_lock block, then the routing chain up to the parser call
MessageLock ==
    /\ callRun.pos = "lock"
    /\ LET seen == IF callRun.attempts > 0 THEN FALSE ELSE callRun.seen
       IN callRun' =
              IF seen
              THEN [callRun EXCEPT !.pos = "returned", !.outcome = "dropped"]
              ELSE IF callRun.route = "Invalid"
              THEN [callRun EXCEPT !.seen = TRUE, !.pos = "returned", !.outcome = "invalid"]
              ELSE [callRun EXCEPT !.seen = TRUE, !.pos = "parser", !.calls = @ + 1]
    /\ UNCHANGED notOutcomeVars

\* the parser returns; the engine logs success and returns
CallReturns ==
    /\ callRun.pos = "parser"
    /\ callRun' = [callRun EXCEPT !.pos = "returned", !.outcome = "success"]
    /\ UNCHANGED notOutcomeVars

\* the parser body or its commit raises; a parser that swallows the error
\* returns, any other lets it out to the engine's except clause
CallRaises(err) ==
    /\ callRun.pos = "parser"
    /\ err \in RetryErrors(callRun.route)
    /\ callRun' = IF Catches(callRun.route, err) /\ Swallows(callRun.route)
                  THEN [callRun EXCEPT !.pos = "returned", !.outcome = "success"]
                  ELSE [callRun EXCEPT !.pos = "except"]
    /\ UNCHANGED notOutcomeVars

\* the engine's except clause: on the last attempt the dead-letter entry
\* and break, else attempts += 1 and time.sleep(sleep_time)
ExceptClause ==
    /\ callRun.pos = "except"
    /\ callRun' = IF callRun.attempts = callRun.max_retries - 1
                  THEN [callRun EXCEPT !.pos = "returned", !.outcome = "deadletter",
                                       !.written = @ + 1]
                  ELSE [callRun EXCEPT !.pos = "test", !.attempts = @ + 1]
    /\ UNCHANGED notOutcomeVars

OutcomeNext ==
    \/ LoopTest
    \/ MessageLock
    \/ CallReturns
    \/ \E err \in ErrorClasses : CallRaises(err)
    \/ ExceptClause

OutcomeSpec == OutcomeInit /\ [][OutcomeNext]_vars

(***************************************************************************)
(* Properties                                                              *)
(***************************************************************************)
\* C1: at most one parser execution is in progress at any moment: while one
\* worker is inside a parser call no other worker is inside a parser call.
C1_OneParserAtATime ==
    \A v, w \in Workers : (InParser(v) /\ InParser(w)) => v = w

\* a call of worker w that has returned after its parser run was committed
Persisted(w) == pc[w] = "recv" /\ outcome[w] = "success" /\ perr[w] = "none"

\* C2: when two envelopes with different message ids, arriving on different
\* connections, name the same not-yet-stored author and publication title,
\* then after both are processed exactly one row exists for each.
C2_OneRowPerEntity ==
    \A v, w \in Workers :
        ( /\ v # w
          /\ Persisted(v) /\ Persisted(w)
          /\ Route(cur[v]) = "ScholarPublicationParser"
          /\ Route(cur[w]) = "ScholarPublicationParser"
          /\ message_id(cur[v]) # message_id(cur[w]) )
        => (Len(db["author"]) = 1 /\ Len(db["publication"]) = 1)

\* a call of worker w has returned, it invoked the parser, and every
\* invocation ended with an exception at the engine
AllAttemptsRaised(w) == pc[w] = "recv" /\ calls[w] >= 1 /\ fails[w] = calls[w]

\* C3: if the parser raises on every attempt, the call invokes the parser
\* exactly max_retries times, writes exactly one dead-letter entry, which
\* carries the text of the last error, and returns.
C3_RetriesThenDeadLetter ==
    \A w \in Workers :
        AllAttemptsRaised(w) =>
            /\ calls[w] = max_retries
            /\ outcome[w] = "deadletter"
            /\ Len(written[w]) = 1
            /\ written[w][1][2] = RaisedText(Route(cur[w]), perr[w])

C3_Witness ==
    \E w \in Workers : AllAttemptsRaised(w) /\ outcome[w] = "deadletter"

\* C4 as claimed: the dead-letter entry of a finally failed envelope is
\* stored under the engine's message_id (class_id, variant_id and _id
\* concatenated).
C4_KeyIsMessageId ==
    \A w \in Workers :
        (pc[w] = "recv" /\ outcome[w] = "deadletter") =>
            /\ written[w][1][1] = message_id(cur[w])
            /\ message_id(cur[w]) \in DOMAIN errors

\* C4 amended: the dead-letter entry of a finally failed envelope is stored
\* under str(_id) of the envelope alone.
C4_KeyIsEnvelopeId ==
    \A w \in Workers :
        (pc[w] = "recv" /\ outcome[w] = "deadletter") =>
            /\ written[w][1][1] = cur[w].id
            /\ cur[w].id \in DOMAIN errors
            /\ message_id(cur[w]) \notin DOMAIN errors

C4_Witness ==
    \E w \in Workers : pc[w] = "recv" /\ outcome[w] = "deadletter" /\ Len(written[w]) = 1

\* C5: for every parser, an error raised while it processes an envelope is
\* re-raised to the engine: the attempt counts as failed (the engine's
\* except clause is reached) and is never logged as persisted.
C5_ErrorsReachEngine ==
    \A w \in Workers :
        perr[w] # "none" =>
            \/ pc[w] = "failed"
            \/ pc[w] = "recv" /\ outcome[w] = "deadletter"

\* C6: for every parser, whenever an error leaves the parser after its
\* nested transaction was opened, session.rollback() has been executed
\* before the error reaches the engine.
C6_RollbackBeforeEngine ==
    \A w \in Workers : pc[w] = "failed" => rolledBack[w]

C8_ReplayRunsParser ==
    \A w \in Workers :
        (replay[w] /\ pc[w] = "recv" /\ outcome[w] # "none") => calls[w] >= 1

\* C8 amended: after an envelope was processed successfully, the identical
\* envelope sent again is dropped at the seen-set test: no parser runs, and
\* the step leaves every row and every update_count as it was.
C8_ReplayDropped ==
    [][ \A w \in Workers :
            (replay[w] /\ pc[w] = "check" /\ pc'[w] # "check") =>
                /\ pc'[w] = "recv"
                /\ outcome'[w] = "dropped"
                /\ calls'[w] = 0
                /\ db' = db
      ]_vars

C8_Witness ==
    \E w \in Workers : replay[w] /\ pc[w] = "recv" /\ outcome[w] = "dropped"

\* a line that, parsed as JSON, is an object with class_id, variant_id, _id
WellFormed(e) == e.form = "envelope"

\* C16: a line that is not valid JSON, that is not a JSON object, or that
\* lacks class_id, variant_id or _id is discarded by the call that receives
\* it: no parser is invoked, no retry and no sleep happens, no dead-letter
\* entry is written, and seen_messages, the rows and the dead-letter file
\* stay as they were.
C16_MalformedDiscarded ==
    [][ \A w \in Workers :
            (started'[w] = started[w] + 1 /\ ~WellFormed(cur'[w])) =>
                /\ pc'[w] = "recv"
                /\ handled'[w] = handled[w] + 1
                /\ calls'[w] = 0
                /\ attempts'[w] = 0
                /\ written'[w] = <<>>
                /\ seen_messages' = seen_messages
                /\ errors' = errors
                /\ db' = db
      ]_vars

\* a line without _id was handed over and its call has returned
C16_Witness ==
    \E w \in Workers :
        /\ pc[w] = "recv" /\ handled[w] = started[w] /\ started[w] >= 1
        /\ cur[w] = Malformed("no _id")
        /\ calls[w] = 0

\* the six routed combinations of (class_id, variant_id)
RoutedKinds ==
    { <<Author_CLASS_ID, GoogleScholarAuthor_VARIANT_ID>>,
      <<Publication_CLASS_ID, GoogleScholarPublication_VARIANT_ID>>,
      <<Conference_CLASS_ID, Conference_VARIANT_ID>>,
      <<Journal_CLASS_ID, Journal_VARIANT_ID>>,
      <<Publication_CLASS_ID, DblpAssoc_VARIANT_ID>>,
      <<GoogleScholarCitation_CLASS_ID, GoogleScholarCitation_VARIANT_ID>> }

Unrouted(e) == WellFormed(e) /\ e # NoEnvelope /\ <<e.class_id, e.variant_id>> \notin RoutedKinds

\* C17: an envelope whose (class_id, variant_id) is none of the six routed
\* combinations is discarded after a single pass: no parser is invoked, it is
\* not retried, and no dead-letter entry is written.
C17_UnroutedDiscarded ==
    \A w \in Workers :
        Unrouted(cur[w]) =>
            /\ pc[w] \in {"check", "recv"}
            /\ calls[w] = 0
            /\ attempts[w] = 0
            /\ written[w] = <<>>
            /\ pc[w] = "recv" => outcome[w] \in {"invalid", "dropped"}

\* an envelope of no routed kind went through the routing chain
C17_Witness ==
    \E w \in Workers : Unrouted(cur[w]) /\ pc[w] = "recv" /\ outcome[w] = "invalid"

(***************************************************************************)
(* Properties of the framing                                               *)
(***************************************************************************)
\* the newline-terminated lines of the bytes s from index from on
RECURSIVE LinesFrom(_, _)
LinesFrom(s, from) ==
    IF \A i \in from..Len(s) : s[i] # "\n" THEN <<>>
    ELSE LET e == CHOOSE i \in from..Len(s) :
                     s[i] = "\n" /\ \A j \in from..(i - 1) : s[j] # "\n"
         IN <<SubSeq(s, from, e - 1)>> \o LinesFrom(s, e + 1)

\* a line without its leading and trailing whitespace
Trimmed(b) ==
    LET keep == {i \in 1..Len(b) : b[i] \notin Whitespace} IN
    IF keep = {} THEN <<>>
    ELSE SubSeq(b, CHOOSE i \in keep : \A j \in keep : i <= j,
                   CHOOSE i \in keep : \A j \in keep : i >= j)

IsNonEmpty(b) == b # <<>>
IsText(b) == b # <<>> /\ ValidUtf8(b)

\* the trimmed, non-empty newline-terminated lines of the stream
TrimmedLines(s) ==
    LET ls == LinesFrom(s, 1) IN
    SelectSeq([i \in 1..Len(ls) |-> Trimmed(ls[i])], IsNonEmpty)

\* str.encode("utf-8") of a decoded message
RECURSIVE Encode(_)
Encode(t) ==
    IF t = <<>> THEN <<>>
    ELSE IF Head(t) = "e'" THEN <<"L", "C">> \o Encode(Tail(t))
    ELSE <<Head(t)>> \o Encode(Tail(t))

\* the messages of the stream in wire order: the trimmed, non-empty lines
\* that are valid UTF-8, decoded
WireMessages(s) ==
    LET ls == SelectSeq(TrimmedLines(s), IsText) IN
    [i \in 1..Len(ls) |-> Decode(ls[i])]

IsPrefix(a, b) == Len(a) <= Len(b) /\ a = SubSeq(b, 1, Len(a))

\* C9: on one connection the lines are dispatched in wire order and
\* serially: the handler call for a line, with all its retries, has returned
\* before the handler is called for the next line.
C9_SerialWireOrder ==
    /\ IsPrefix(delivered, WireMessages(stream))
    /\ Len(delivered) - returned \in {0, 1}

\* the second line is in its handler, on a retry, the first call returned
C9_Witness ==
    Len(delivered) = 2 /\ returned = 1 /\ hAttempts > 1 /\ delivered[1] # delivered[2]

\* C10 as claimed: for every byte stream and every split into recv chunks,
\* the messages handed to the handler are exactly the newline-terminated
\* lines of the stream, trimmed, without the empty ones, each once.
C10_AllLinesHanded ==
    fpc = "eof" =>
        [i \in 1..Len(delivered) |-> Encode(delivered[i])] = TrimmedLines(stream)

\* C10 amended: for every byte stream and every split into recv chunks,
\* once the stream is read to its end the messages handed to the handler are
\* exactly the newline-terminated lines of the stream that are valid UTF-8
\* after trimming, decoded, without the empty ones, each once and in order.
C10_ValidLinesHanded ==
    fpc = "eof" => (delivered = WireMessages(stream) /\ returned = Len(delivered))

\* the end of a stream of two messages whose bytes came in several chunks
C10_Witness ==
    fpc = "eof" /\ Len(delivered) = 2 /\ buffer = <<>> /\ delivered[1] # delivered[2]

(***************************************************************************)
(* Properties of the stored rows                                           *)
(***************************************************************************)
\* C11 (I5): after any sequence of successfully processed envelopes the
\* AuthorCoauthor relation is symmetric: with a row (a, b) the row (b, a)
\* is stored too.
C11_CoauthorSymmetric ==
    \A l \in author_coauthor : <<l[2], l[1]>> \in author_coauthor

\* C12 (P4): no two ScholarPublication rows share a publication_id, and the
\* ScholarPublication upsert finds the stored row of a publication_id that is
\* already stored, whatever cites_id the envelope carries.
C12_UpsertFindsStoredId ==
    /\ \A j, k \in DOMAIN store["google_scholar_publication"] :
          store["google_scholar_publication"][j].publication_id
              = store["google_scholar_publication"][k].publication_id => j = k
    /\ (lastRun.parser = "ScholarPublicationParser" /\ lastRun.lookup.known)
          => (lastRun.lookup.found /\ ~lastRun.raised)

\* the tables of the entity rows an upsert stamps
EntityTables == {"conference", "journal", "google_scholar_citation", "publication",
                 "google_scholar_publication", "author", "google_scholar_author"}

\* C19: every successful upsert of an entity row sets the row's update_count
\* to its previous value (0 if absent) plus 1, whatever metadata the envelope
\* carries.
C19_UpdateCountPlusOne ==
    \A wr \in lastRun.writes :
        wr.table \in EntityTables => wr.after.update_count = wr.before.update_count + 1

\* C20 (I4): every stored entity row has update_count >= 1, and the
\* update_date of a row never decreases from one successful write of the row
\* to the next.
C20_CountPositiveDateMonotonic ==
    /\ \A t \in EntityTables : \A k \in DOMAIN store[t] : store[t][k].update_count >= 1
    /\ \A wr \in lastRun.writes :
          (wr.table \in EntityTables /\ wr.existed)
              => wr.after.update_date >= wr.before.update_date

(***************************************************************************)
(* Properties of the server                                                *)
(***************************************************************************)
\* C13: whenever a connection worker has terminated, on every exit path, its
\* socket is closed and is absent from the connection registry.
C13_TerminatedWorkerReleased ==
    \A s \in Sockets :
        wpc[s] = "done" => (sock[s] = "closed" /\ s \notin DOMAIN connections)

\* the workers of both connections have terminated, after a pass of the reaper
C13_Witness ==
    /\ \A s \in Sockets : wpc[s] = "done"
    /\ rpc = "sleep"
    /\ lastScan > 0

\* C14: after stop() has returned the accept worker has terminated, no
\* connection is being accepted, and every socket the server accepted is
\* closed and absent from the registry.
C14_StopClosesEverything ==
    spc = "returned" =>
        /\ lpc = "done"
        /\ accepted = NoSocket
        /\ DOMAIN connections = {}
        /\ \A s \in Sockets : sock[s] # "open"

\* C15: when the reaper has gone through its list after a wake-up, no
\* connection whose last activity was more than
\* max_unactive_connection_seconds before that wake-up is left in the
\* registry, and every socket left out of it since is closed.
C15_ReaperClosesInactive ==
    rpc = "sleep" =>
        /\ \A s \in DOMAIN connections :
              lastScan - connections[s] <= max_unactive_connection_time
        /\ to_close = {}
        /\ removing = NoSocket

\* the reaper has closed a connection whose worker is still blocked in recv
C15_Witness ==
    /\ rpc = "sleep"
    /\ is_running
    /\ \E s \in Sockets : sock[s] = "closed" /\ wpc[s] = "recv" /\ s \notin DOMAIN connections

\* C18: a step of one connection's worker (a socket error, a read timeout, a
\* handler failure, its cleanup) leaves every other connection as it was:
\* socket state, registry entry, time of last activity, position of its
\* worker.
C18_OtherConnectionsUntouched ==
    [][ \A s \in Sockets :
            (wpc[s] \in {"recv", "handle", "del", "close"} /\ wpc'[s] # wpc[s]) =>
                \A t \in Sockets \ {s} :
                    /\ sock'[t] = sock[t]
                    /\ wpc'[t] = wpc[t]
                    /\ (t \in DOMAIN connections') = (t \in DOMAIN connections)
                    /\ t \in DOMAIN connections => connections'[t] = connections[t]
      ]_vars

\* one worker has ended on an error while the other connection is open,
\* registered and its worker reading
C18_Witness ==
    \E s, t \in Sockets :
        /\ wpc[s] = "done"
        /\ sock[t] = "open" /\ t \in DOMAIN connections /\ wpc[t] = "recv"

(***************************************************************************)
(* Properties of the association processor                                 *)
(***************************************************************************)
\* the entry of the run was handed to _process_conference
ConferenceRun == dblpRun.done /\ ReachesConference(dblpRun.before, dblpRun.pub_data)

\* the acronym of the entry of the run, in upper case
RunAcronym == Upper(Get(dblpRun.pub_data, "conference_acronym", <<"unknown_conference">>))

\* the parts of the acronym in the order of the fallback: the parts of the
\* split on "@", then of the split on "/", then of the split on "-", each
\* for a separator the acronym contains
FallbackParts(acronym) ==
    (IF Contains(acronym, "@") THEN Split(acronym, "@") ELSE <<>>)
        \o (IF Contains(acronym, "/") THEN Split(acronym, "/") ELSE <<>>)
        \o (IF Contains(acronym, "-") THEN Split(acronym, "-") ELSE <<>>)

StoredParts(parts, stored) == {i \in 1..Len(parts) : parts[i] \in stored}

\* the first of the parts that is a stored acronym
FirstStored(parts, stored) ==
    parts[CHOOSE i \in StoredParts(parts, stored) :
              \A j \in StoredParts(parts, stored) : i <= j]

\* the publication row the run matched
RunTitle == Lower(Get(dblpRun.pub_data, "title", "unknown_title"))

\* C21: when the raw acronym matches no stored conference, the parts of the
\* split on "@", then on "/", then on "-" are probed from left to right; the
\* publication is attached to the first part that matches and no conference
\* is inserted.
C21_FallbackOrder ==
    (/\ ConferenceRun
     /\ RunAcronym \notin DOMAIN dblpRun.before.conference
     /\ StoredParts(FallbackParts(RunAcronym), DOMAIN dblpRun.before.conference) # {})
        => /\ dblp.publication[RunTitle].conference =
                  FirstStored(FallbackParts(RunAcronym), DOMAIN dblpRun.before.conference)
           /\ dblp.conference = dblpRun.before.conference

\* conferences A and B stored, acronym A/B@B: the split on "@" is probed
\* first and its part B is attached, not the part A of the split on "/"
C21_Witness ==
    /\ ConferenceRun
    /\ RunAcronym = <<"A", "/", "B", "@", "B">>
    /\ {<<"A">>, <<"B">>} \subseteq DOMAIN dblpRun.before.conference
    /\ dblp.publication[RunTitle].conference = <<"B">>

\* the acronym the spec gives a conference inserted for the acronym: the
\* last part of the last split, the acronym itself when nothing was split
LastSplitPart(acronym) ==
    IF FallbackParts(acronym) = <<>> THEN acronym
    ELSE FallbackParts(acronym)[Len(FallbackParts(acronym))]

\* C22: when neither the raw acronym nor any part matches a stored
\* conference, exactly one conference is inserted, with rank "Unranked" and
\* with the last-split part as its acronym (the raw acronym when nothing was
\* split).
C22_InsertLastSplitPart ==
    (/\ ConferenceRun
     /\ RunAcronym \notin DOMAIN dblpRun.before.conference
     /\ StoredParts(FallbackParts(RunAcronym), DOMAIN dblpRun.before.conference) = {})
        => /\ DOMAIN dblp.conference \ DOMAIN dblpRun.before.conference
                  = {LastSplitPart(RunAcronym)}
           /\ dblp.conference[LastSplitPart(RunAcronym)] = "Unranked"

\* the title of the entry of the run matches a stored publication
RunMatched == dblpRun.done /\ RunTitle \in DOMAIN dblpRun.before.publication

\* the names of the entry of the run that match a stored author
RunAuthors == {Lower(n) : n \in Get(dblpRun.pub_data, "authors", {})} \cap dblpRun.before.author

\* C23: the association processor creates no Publication and no Author row;
\* an entry whose title matches no stored publication changes nothing; an
\* author without a stored match is skipped, and links are added only
\* between stored rows.
C23_NoPublicationNoAuthorCreated ==
    dblpRun.done =>
        /\ DOMAIN dblp.publication = DOMAIN dblpRun.before.publication
        /\ dblp.author = dblpRun.before.author
        /\ ~RunMatched => dblp = dblpRun.before
        /\ dblp.publication_author \subseteq (DOMAIN dblpRun.before.publication) \X dblpRun.before.author
        /\ dblp.author_coauthor \subseteq dblpRun.before.author \X dblpRun.before.author

\* an entry naming a stored and an unknown author was linked to the stored one
C23_Witness ==
    /\ RunMatched
    /\ ~dblpRun.raised
    /\ Get(dblpRun.pub_data, "authors", {}) = {"A", "b"}
    /\ dblp.publication_author = {<<RunTitle, "a">>}

\* C24: an entry whose type is neither "Journal" nor "Conference", or that
\* has no type, and whose title matches a stored publication is processed
\* without error: the author links are added and the publication's journal
\* and conference references stay as they were.
C24_OtherTypeSucceeds ==
    (/\ RunMatched
     /\ Get(dblpRun.pub_data, "type", None) \notin {"Journal", "Conference"})
        => /\ ~dblpRun.raised
           /\ {<<RunTitle, a>> : a \in RunAuthors} \subseteq dblp.publication_author
           /\ dblp.publication = dblpRun.before.publication

(***************************************************************************)
(* Properties of the scholar publication parser                            *)
(***************************************************************************)
\* the run of the parser ended with commit()
ScholarCommitted == scholarRun.done /\ ~scholarRun.raised

\* C25: ScholarPublicationParser skips every listed author name whose first
\* whitespace token has length 1 or less: no Author row is created for it
\* and no publication-author link is added.
C25_ShortFirstTokenSkipped ==
    ScholarCommitted =>
        \A n \in Get(scholarRun.json_data, "authors", {}) :
            is_first_word_short(n) =>
                /\ n \in scholar.author => n \in scholarRun.before.author
                /\ <<scholarRun.json_data.title, n>> \notin scholar.publication_author

\* C27: when the upsert finds an existing Publication row, every column
\* whose field is absent from the envelope keeps its stored value.
C27_AbsentFieldsKept ==
    (ScholarCommitted /\ scholarRun.json_data.title \in DOMAIN scholarRun.before.publication)
        => \A column \in PublicationColumns :
              FieldOf(column) \notin DOMAIN scholarRun.json_data =>
                  scholar.publication[scholarRun.json_data.title][column]
                      = scholarRun.before.publication[scholarRun.json_data.title][column]

(***************************************************************************)
(* Properties of the journal parser                                        *)
(***************************************************************************)
\* the run of the parser updated a stored journal and committed
JournalUpdated == journalRun.done /\ ~journalRun.raised /\ journalRun.found # None

\* C26: when JournalParser updates an existing journal, every scalar field
\* absent from the payload, year and type included, keeps the value stored
\* before the update.
C26_AbsentJournalFieldsKept ==
    JournalUpdated =>
        \A c \in JournalColumns :
            c \notin DOMAIN journalRun.journal_data =>
                journal[journalRun.found][c] = journalRun.before[journalRun.found][c]

\* C28: when several stored rows score above the threshold for the key of
\* an upsert, the row updated is the one with the highest score.
C28_HighestScoreUpdated ==
    JournalUpdated =>
        \A k \in DOMAIN journalRun.before :
            word_similarity(k, journalRun.journal_data.title)
                <= word_similarity(journalRun.found, journalRun.journal_data.title)

(***************************************************************************)
(* Properties of the sessions and sleeps of one call                       *)
(***************************************************************************)
\* C29: every session the engine obtained for a message is released by the
\* time process_listened_message returns: none is left with its transaction
\* open, on the success path, on a failed attempt and on the final failure.
C29_SessionsReleased ==
    rpos = "returned" => \A i \in 1..Len(sessions) : sessions[i] # "active"

\* C30: between two consecutive attempts the engine sleeps exactly once, for
\* a time between 0.8 and 1.2 times delay_secs and never negative; it does
\* not sleep after a successful attempt nor after the final failed attempt.
C30_OneJitteredSleepBetweenAttempts ==
    /\ \A i \in 1..Len(sleeps) :
          /\ sleeps[i] >= 0
          /\ 100 * sleeps[i] >= 80 * delay
          /\ 100 * sleeps[i] <= 120 * delay
    /\ rpos = "test" => Len(sleeps) = made
    /\ rpos \in {"parser", "except", "returned"} => Len(sleeps) = made - 1

\* the call failed twice and returned, with one shortest sleep in between
C30_Witness ==
    /\ rpos = "returned"
    /\ made >= 2
    /\ delay = 100
    /\ sleeps[1] = 80
    /\ Len(sleeps) = made - 1

(***************************************************************************)
(* Properties of first_after_fifth                                         *)
(***************************************************************************)
\* a non-empty text whose words are joined by single spaces
SingleSpaced(text) ==
    /\ text # <<>>
    /\ text[1] # " "
    /\ text[Len(text)] # " "
    /\ \A i \in 1..(Len(text) - 1) : ~(text[i] = " " /\ text[i + 1] = " ")

\* the number of the word of a single-spaced text that holds the character at
\* index k (from 0), when that character is no space
WordAt(text, k) == 1 + Cardinality({i \in 1..k : text[i] = " "})

\* C31: for a non-empty text whose words are joined by single spaces,
\* first_after_fifth returns the word whose characters include index
\* floor(len(text) / 5), or the word after it when that word has fewer than
\* 2 characters, and it returns None for the empty text only
C31_WordAtFifth ==
    (fifthRun.done /\ SingleSpaced(fifthRun.text)) =>
        LET text == fifthRun.text
            k == Len(text) \div 5
            words == Words(text)
            n == WordAt(text, k)
        IN /\ fifthRun.returned # NoWord
           /\ text[k + 1] # " " =>
                 fifthRun.returned = IF Len(words[n]) < 2 THEN words[n + 1] ELSE words[n]

(***************************************************************************)
(* Properties of the seen-set                                              *)
(***************************************************************************)
\* the worker's call was admitted by the message_lock block and has not
\* returned: it is in the parser, in the except clause or in the back-off
\* sleep before its retry
PastSeenCheck(w) == pc[w] \in {"work", "commit", "failed", "sleep"}

\* the worker's last call was for the same message id as w's and returned
SameIdReturned(w, v) ==
    /\ v # w
    /\ pc[v] = "recv"
    /\ handled[v] > 0
    /\ WellFormed(cur[v])
    /\ message_id(cur[v]) = message_id(cur[w])

\* C32: of the workers that hold envelopes with one message id, at most one
\* is past the seen-set test at a time, from its admission to its return,
\* the back-off sleep before a retry included; the other one was dropped
\* and called no parser
C32_OneAdmittedPerId ==
    \A w \in Workers : PastSeenCheck(w) =>
        \A v \in Workers \ {w} :
            /\ PastSeenCheck(v) => message_id(cur[v]) # message_id(cur[w])
            /\ SameIdReturned(w, v) => (outcome[v] = "dropped" /\ calls[v] = 0)

\* a worker sleeps before its retry and the other worker was dropped with
\* the same message id
C32_Witness ==
    \E w \in Workers : \E v \in Workers :
        /\ pc[w] = "sleep"
        /\ fails[w] > 0
        /\ SameIdReturned(w, v)
        /\ outcome[v] = "dropped"

\* C33: the second of two envelopes is dropped as a duplicate of the first
\* only when the two agree on class_id, variant_id and _id
C33_DuplicateOnlyIfSameTriple ==
    (Len(dedupRun.did) = 2 /\ dedupRun.did[2] = "dropped") =>
        /\ dedupRun.envelopes[1].class_id = dedupRun.envelopes[2].class_id
        /\ dedupRun.envelopes[1].variant_id = dedupRun.envelopes[2].variant_id
        /\ dedupRun.envelopes[1].id = dedupRun.envelopes[2].id

\* the worker's call was admitted and has ended: the parser returned, no
\* branch of the routing chain matched, or the dead-letter entry was written
EndedAdmitted(w) == pc[w] = "recv" /\ outcome[w] \in {"success", "invalid", "deadletter"}

\* C34: the message id of an admitted call is in seen_messages from its
\* admission on, whatever the outcome of the call; seen_messages never
\* loses an id, and a call that finds its id there on its first attempt
\* returns with no parser call and no dead-letter entry
C34_AdmittedStaysSeen ==
    /\ [](\A w \in Workers :
            (PastSeenCheck(w) \/ EndedAdmitted(w)) => message_id(cur[w]) \in seen_messages)
    /\ [][/\ seen_messages \subseteq seen_messages'
          /\ \A w \in Workers :
                (pc[w] = "check" /\ message_id(cur[w]) \in seen_messages /\ pc'[w] # "check")
                    => (outcome'[w] = "dropped" /\ calls'[w] = 0 /\ written'[w] = <<>>)]_vars

\* an envelope was dead-lettered and the same envelope, sent again, dropped
C34_Witness ==
    \E w \in Workers : \E v \in Workers :
        /\ pc[w] = "recv"
        /\ outcome[w] = "deadletter"
        /\ SameIdReturned(w, v)
        /\ outcome[v] = "dropped"
        /\ errors # <<>>

(***************************************************************************)
(* Properties of the outcome of one call                                   *)
(***************************************************************************)
\* C35: for every max_retries >= 0 a call for a well-formed envelope makes
\* at most max_retries parser calls, and when it has returned exactly one
\* of three things has happened: a parser call returned normally, the
\* envelope was dropped as already seen, or a dead-letter entry was written
C35_OneOfThreeOutcomes ==
    /\ callRun.calls <= callRun.max_retries
    /\ callRun.pos = "returned" =>
          /\ callRun.outcome \in {"success", "dropped", "deadletter"}
          /\ callRun.outcome = "success" => callRun.calls >= 1
          /\ callRun.outcome = "deadletter" <=> callRun.written = 1
          /\ callRun.outcome = "dropped" => callRun.calls = 0

(***************************************************************************)
(* Properties of a failed handler call                                     *)
(***************************************************************************)
NotText(l) == ~IsText(l)

\* some handler call of the connection ended by raising, or a line of the
\* stream could not be decoded
SomeLineFailed ==
    \/ \E i \in 1..Len(hRaised) : hRaised[i]
    \/ SelectSeq(TrimmedLines(stream), NotText) # <<>>

\* C36: a handler call that raises leaves the worker where it was in its
\* read loop, the connection open and the rest of the buffer in place; and
\* when a line of the connection has failed (its handler call raised, or
\* its bytes could not be decoded), every complete line after it is handed
\* to the handler all the same by the time the stream is read to its end
C36_FailureKeepsConnection ==
    /\ [][(Len(hRaised') > Len(hRaised) /\ hRaised'[Len(hRaised')])
             => (fpc' = fpc /\ buffer' = buffer /\ pos' = pos /\ delivered' = delivered)]_vars
    /\ []((fpc = "eof" /\ SomeLineFailed) =>
             (delivered = WireMessages(stream) /\ Len(hRaised) = Len(delivered)))

\* the handler call of the first of two lines raised and the second line
\* was handed to the handler after it
C36_Witness ==
    /\ fpc = "eof"
    /\ Len(delivered) = 2
    /\ hRaised = <<TRUE, FALSE>>

(***************************************************************************)
(* Properties of the reaper                                                *)
(***************************************************************************)
\* C37: when the reaper takes a connection out of the registry to close it,
\* the last activity recorded for the connection at that moment is older
\* than max_unactive_connection_seconds; a connection its worker refreshed
\* after the reaper's scan is left alone in that round
C37_ClosedOnlyIfStillInactive ==
    [][\A s \in Sockets :
          (rpc = "close" /\ rpc' = "shut" /\ removing' = s /\ s \in DOMAIN connections)
              => Inactive(now, connections[s])]_vars

\* C38: the reaper closes no socket whose handle_client thread is inside
\* the handler call for a message
C38_NotClosedInsideHandler ==
    [][\A s \in Sockets :
          (rpc = "shut" /\ removing = s /\ sock[s] = "open" /\ sock'[s] = "closed")
              => wpc[s] # "handle"]_vars

\* C39: every socket recorded in the connection registry is open, and a
\* socket taken out of the registry by the reaper, by stop() or by its
\* worker's cleanup does not come back into it
C39_RegistryHoldsOpenSockets ==
    /\ [](\A s \in DOMAIN connections : sock[s] = "open")
    /\ [][\A s \in Sockets :
             (s \in DOMAIN connections' /\ s \notin DOMAIN connections) => lpc = "register"]_vars

\* C40: no AuthorCoauthor row links an author to itself, whatever envelopes
\* were processed
C40_CoauthorIrreflexive == \A l \in author_coauthor : l[1] # l[2]

====
